---- MODULE Spec2Model ----
(***************************************************************************)
(* Model of the file mutation engine of spiderfs_mcp (file/writer.py), of  *)
(* its range reader (file/reader.py), of its chunk streamer                *)
(* (file/streamer.py), of read_file and detect_encoding (file_reader.py)   *)
(* and of the entry points of replace_string (api/file.py, server.py).     *)
(*                                                                         *)
(* The file system holds the target path, its sibling backup path          *)
(* (<path>.bak) and one temporary file per running call.  A file's content *)
(* is a sequence of bytes; the bytes that matter to the engine are named   *)
(* (LF, CR, FF, BAD), every other byte is an ordinary character.           *)
(* A call of apply_line_edits or replace_string advances one file-system   *)
(* operation at a time (pc), so that the states between two operations     *)
(* are visible.  Text I/O is modelled as Python does it on a POSIX host:   *)
(* reading in text mode translates CR LF and CR to LF, writing in text     *)
(* mode writes LF as LF.                                                   *)
(***************************************************************************)
EXTENDS Integers, Sequences, FiniteSets, TLC

VARIABLES target, bak, tmp, call, env

vars == <<target, bak, tmp, call, env>>

(***************************************************************************)
(* Bounds of the model.                                                    *)
(***************************************************************************)
MaxLines == 4
MaxCalls == 2

Procs == {1, 2}

(***************************************************************************)
(* Bytes and characters.                                                   *)
(***************************************************************************)
LF == "LF"
CR == "CR"
FF == "FF"
BAD == "BAD"

Min(a, b) == IF a < b THEN a ELSE b
Max(a, b) == IF a < b THEN b ELSE a
Abs(a) == IF a < 0 THEN 0 - a ELSE a

Last(s) == s[Len(s)]

\* s[lo:hi] of Python: 0-based, half open, indices clamped to the length.
Slice(s, lo, hi) ==
    LET l == Min(Max(lo, 0), Len(s))
        h == Min(Max(hi, 0), Len(s))
    IN  IF h <= l THEN <<>> ELSE SubSeq(s, l + 1, h)

\* "".join(lines), and what writelines(lines) writes.
RECURSIVE Flatten(_)
Flatten(ls) == IF ls = <<>> THEN <<>> ELSE Head(ls) \o Flatten(Tail(ls))

(***************************************************************************)
(* Files.                                                                  *)
(***************************************************************************)
Absent == [kind |-> "absent", data |-> <<>>]
Dir == [kind |-> "dir", data |-> <<>>]
File(d) == [kind |-> "file", data |-> d]

Exists(f) == f.kind # "absent"
IsFile(f) == f.kind = "file"

\* The proper prefixes of d: what an interrupted write leaves behind.
Prefixes(d) == {SubSeq(d, 1, n) : n \in 0..(Len(d) - 1)}

(***************************************************************************)
(* Text mode                                                               *)
(***************************************************************************)
\* The codecs of the host, among the names the callers use: open(path, 'r',
\* encoding=e) and codecs.lookup(e) raise LookupError for any other name.
SupportedEncoding(e) ==
    e \in {"utf-8", "latin-1", "utf-16", "ascii", "iso-8859-1", "windows-1252"}

\* encoding or self.default_encoding: the encoding a call attempts.
FileEncoding(encoding, default_encoding) ==
    IF encoding = "None" THEN default_encoding ELSE encoding

\* The message of the handlers of UnicodeDecodeError.
EncodingError(file_encoding) ==
    "Encoding error: " \o file_encoding \o " is not compatible with this file"

\* open(path, 'r', encoding=e).read() raises UnicodeDecodeError
Decodable(d, e) == e = "latin-1" \/ \A i \in 1..Len(d) : d[i] # BAD

\* newline=None on input: CR LF and a lone CR are both read as LF.
RECURSIVE Universal(_)
Universal(d) ==
    IF d = <<>> THEN <<>>
    ELSE IF Head(d) = CR
         THEN <<LF>> \o Universal(IF Len(d) >= 2 /\ d[2] = LF
                                   THEN SubSeq(d, 3, Len(d)) ELSE Tail(d))
         ELSE <<Head(d)>> \o Universal(Tail(d))

\* f.read() of a text-mode file
ReadText(d) == Universal(d)

\* f.readlines(): the text cut after every LF.
RECURSIVE CutLF(_, _)
CutLF(t, cur) ==
    IF t = <<>> THEN (IF cur = <<>> THEN <<>> ELSE <<cur>>)
    ELSE IF Head(t) = LF THEN <<Append(cur, LF)>> \o CutLF(Tail(t), <<>>)
         ELSE CutLF(Tail(t), Append(cur, Head(t)))

ReadLines(d) == CutLF(Universal(d), <<>>)

\* str.splitlines(keepends): cuts after LF, CR LF, CR and the other line
\* boundaries of str (form feed stands for them).
RECURSIVE SplitLines(_, _, _)
SplitLines(t, cur, keep) ==
    IF t = <<>> THEN (IF cur = <<>> THEN <<>> ELSE <<cur>>)
    ELSE IF Head(t) = CR /\ Len(t) >= 2 /\ t[2] = LF
         THEN <<IF keep THEN cur \o <<CR, LF>> ELSE cur>>
              \o SplitLines(SubSeq(t, 3, Len(t)), <<>>, keep)
    ELSE IF Head(t) \in {LF, CR, FF}
         THEN <<IF keep THEN Append(cur, Head(t)) ELSE cur>>
              \o SplitLines(Tail(t), <<>>, keep)
    ELSE SplitLines(Tail(t), Append(cur, Head(t)), keep)

(***************************************************************************)
(* apply_line_edits: the computation on the lines held in memory           *)
(***************************************************************************)
LineEdit(s, e, c) == [line_start |-> s, line_end |-> e, new_content |-> c]

\* sorted(edits, key=line_start, reverse=True): stable, so edits with the
\* same line_start keep the order of the batch.
\* An insertion that puts an edit before the edits of the same line_start:
\* edits with equal line_start come out in the reverse of the batch order.
RECURSIVE InsertDesc_BeforeEqual(_, _)
InsertDesc_BeforeEqual(s, e) ==
    IF s = <<>> THEN <<e>>
    ELSE IF Head(s).line_start > e.line_start
         THEN <<Head(s)>> \o InsertDesc_BeforeEqual(Tail(s), e)
         ELSE <<e>> \o s

RECURSIVE InsertDesc(_, _)
InsertDesc(s, e) ==
    IF s = <<>> THEN <<e>>
    ELSE IF Head(s).line_start >= e.line_start
         THEN <<Head(s)>> \o InsertDesc(Tail(s), e)
         ELSE <<e>> \o s

\* A sort that forgets to sort: the batch is applied in the order given.
SortedEdits_Unsorted(es) == es

RECURSIVE SortedEdits(_)
SortedEdits(es) ==
    IF es = <<>> THEN <<>>
    ELSE InsertDesc(SortedEdits(SubSeq(es, 1, Len(es) - 1)), Last(es))

\* A validation loop without the check of line_end against line_start.
RECURSIVE ValidateEdits_NoRangeCheck(_)
ValidateEdits_NoRangeCheck(sorted) ==
    IF sorted = <<>> THEN "none"
    ELSE IF Head(sorted).line_start < 1 THEN "InvalidLineNumber"
    ELSE ValidateEdits_NoRangeCheck(Tail(sorted))

\* The validation loop: the error of the first edit, in sorted order, that
\* fails a check.
RECURSIVE ValidateEdits(_)
ValidateEdits(sorted) ==
    IF sorted = <<>> THEN "none"
    ELSE IF Head(sorted).line_start < 1 THEN "InvalidLineNumber"
    ELSE IF Head(sorted).line_end < Head(sorted).line_start THEN "InvalidLineRange"
    ELSE ValidateEdits(Tail(sorted))

\* new_content.splitlines(True), every line but the last made to end in LF.
NewLines(c) ==
    LET ls == SplitLines(c, <<>>, TRUE)
    IN  [i \in 1..Len(ls) |->
            IF Last(ls[i]) # LF /\ i < Len(ls) THEN Append(ls[i], LF) ELSE ls[i]]

\* The loop body with an exclusive line_end: the last line of the range
\* is left in place.
ApplyEdit_ExclusiveEnd(edit, total_lines, acc) ==
    LET start_idx == edit.line_start - 1
        end_idx == Min(edit.line_end, total_lines) - 1
        num_lines_to_replace == end_idx - start_idx
        new_lines == NewLines(edit.new_content)
        original_section == Slice(acc.lines, start_idx, end_idx)
        lines == Slice(acc.lines, 0, start_idx) \o new_lines
                 \o Slice(acc.lines, Max(end_idx, start_idx), Len(acc.lines))
    IN  IF edit.line_start > total_lines
        THEN [acc EXCEPT !.error = "LineBeyondEOF"]
        ELSE [error |-> "none", lines |-> lines,
              changed_lines |->
                 IF original_section # new_lines
                 THEN acc.changed_lines + num_lines_to_replace
                 ELSE acc.changed_lines]

\* The loop body counting the lines of the replacement instead of the
\* lines replaced.
ApplyEdit_CountNew(edit, total_lines, acc) ==
    LET start_idx == edit.line_start - 1
        end_idx == Min(edit.line_end, total_lines)
        new_lines == NewLines(edit.new_content)
        original_section == Slice(acc.lines, start_idx, end_idx)
        lines == Slice(acc.lines, 0, start_idx) \o new_lines
                 \o Slice(acc.lines, Max(end_idx, start_idx), Len(acc.lines))
    IN  IF edit.line_start > total_lines
        THEN [acc EXCEPT !.error = "LineBeyondEOF"]
        ELSE [error |-> "none", lines |-> lines,
              changed_lines |->
                 IF original_section # new_lines
                 THEN acc.changed_lines + Len(new_lines)
                 ELSE acc.changed_lines]

\* The loop body without the check of line_start against the end of the
\* file: the slice assignment past the end appends.
ApplyEdit_NoEOFCheck(edit, total_lines, acc) ==
    LET start_idx == edit.line_start - 1
        end_idx == Min(edit.line_end, total_lines)
        num_lines_to_replace == end_idx - start_idx
        new_lines == NewLines(edit.new_content)
        original_section == Slice(acc.lines, start_idx, end_idx)
        lines == Slice(acc.lines, 0, start_idx) \o new_lines
                 \o Slice(acc.lines, Max(end_idx, start_idx), Len(acc.lines))
    IN  [error |-> "none", lines |-> lines,
         changed_lines |->
            IF original_section # new_lines
            THEN acc.changed_lines + num_lines_to_replace
            ELSE acc.changed_lines]

\* The body of the loop over the sorted edits, for one edit: acc is
\* [error, lines, changed_lines]; lines[start_idx:end_idx] = new_lines.
ApplyEdit(edit, total_lines, acc) ==
    LET start_idx == edit.line_start - 1
        end_idx == Min(edit.line_end, total_lines)
        num_lines_to_replace == end_idx - start_idx
        new_lines == NewLines(edit.new_content)
        original_section == Slice(acc.lines, start_idx, end_idx)
        lines == Slice(acc.lines, 0, start_idx) \o new_lines
                 \o Slice(acc.lines, Max(end_idx, start_idx), Len(acc.lines))
    IN  IF edit.line_start > total_lines
        THEN [acc EXCEPT !.error = "LineBeyondEOF"]
        ELSE [error |-> "none", lines |-> lines,
              changed_lines |->
                 IF original_section # new_lines
                 THEN acc.changed_lines + num_lines_to_replace
                 ELSE acc.changed_lines]

\* The loop: it returns at the first edit beyond the end of the file.
RECURSIVE ApplyEdits(_, _, _)
ApplyEdits(sorted, total_lines, acc) ==
    IF sorted = <<>> THEN acc
    ELSE LET r == ApplyEdit(Head(sorted), total_lines, acc)
         IN  IF r.error # "none" THEN r
             ELSE ApplyEdits(Tail(sorted), total_lines, r)

FoldEdits(es, lines) ==
    ApplyEdits(SortedEdits(es), Len(lines),
               [error |-> "none", lines |-> lines, changed_lines |-> 0])

(***************************************************************************)
(* replace_string: the computation on the text held in memory              *)
(***************************************************************************)
\* old_string in content
Contains(t, old) ==
    \E i \in 0..(Len(t) - Len(old)) : SubSeq(t, i + 1, i + Len(old)) = old

\* content.replace(old, new, n); n < 0 replaces everything.
RECURSIVE StrReplace(_, _, _, _)
StrReplace(t, old, new, n) ==
    IF n = 0 THEN t
    ELSE IF old = <<>>
         THEN IF t = <<>> THEN new
              ELSE new \o <<Head(t)>> \o StrReplace(Tail(t), old, new, n - 1)
    ELSE IF Len(t) < Len(old) THEN t
    ELSE IF SubSeq(t, 1, Len(old)) = old
         THEN new \o StrReplace(SubSeq(t, Len(old) + 1, Len(t)), old, new, n - 1)
         ELSE <<Head(t)>> \o StrReplace(Tail(t), old, new, n)

\* content.count(old): the non-overlapping occurrences, scanned left to right.
RECURSIVE StrCount(_, _)
StrCount(t, old) ==
    IF old = <<>> THEN Len(t) + 1
    ELSE IF Len(t) < Len(old) THEN 0
    ELSE IF SubSeq(t, 1, Len(old)) = old
         THEN 1 + StrCount(SubSeq(t, Len(old) + 1, Len(t)), old)
         ELSE StrCount(Tail(t), old)

\* A count that forgets the bound.
Replacements_CountAll(t, old, max_replacements) == StrCount(t, old)

Replacements(t, old, max_replacements) ==
    IF max_replacements > 0 THEN Min(max_replacements, StrCount(t, old))
    ELSE StrCount(t, old)

NewContent(t, old, new, max_replacements) ==
    IF max_replacements > 0 THEN StrReplace(t, old, new, max_replacements)
    ELSE StrReplace(t, old, new, -1)

\* The line-wise count of replace_string: positions where the lines differ,
\* plus the difference of the line counts.
DiffLines(t, u) ==
    LET old_lines == SplitLines(t, <<>>, FALSE)
        new_lines == SplitLines(u, <<>>, FALSE)
        both == Min(Len(old_lines), Len(new_lines))
    IN  Cardinality({i \in 1..both : old_lines[i] # new_lines[i]})
        + Abs(Len(new_lines) - Len(old_lines))

(***************************************************************************)
(* filecmp.cmp(f1, f2), shallow: equal stat signatures (size and mtime)    *)
(* are taken as equal files; otherwise sizes, then bytes, are compared.    *)
(***************************************************************************)
FileCmp(f1, f2, same_mtime) ==
    IF Len(f1.data) # Len(f2.data) THEN FALSE
    ELSE IF same_mtime THEN TRUE
    ELSE f1.data = f2.data

(***************************************************************************)
(* FileWriteResult                                                         *)
(***************************************************************************)
NoResult ==
    [success |-> FALSE, changed_lines |-> 0, error |-> "pending",
     backup_path |-> FALSE, unchanged |-> FALSE, replacements |-> -1]

Failure(err) ==
    [success |-> FALSE, changed_lines |-> 0, error |-> err,
     backup_path |-> FALSE, unchanged |-> FALSE, replacements |-> -1]

Unchanged ==
    [success |-> TRUE, changed_lines |-> 0, error |-> "none",
     backup_path |-> FALSE, unchanged |-> TRUE, replacements |-> -1]

Success(n, bp, r) ==
    [success |-> TRUE, changed_lines |-> n, error |-> "none",
     backup_path |-> bp, unchanged |-> FALSE, replacements |-> r]

(***************************************************************************)
(* State of a call                                                         *)
(*   pc            where the call stands                                   *)
(*   op            "edits" (apply_line_edits) or "replace" (replace_string)*)
(*   pre, prebak   the target and the backup path as the call found them   *)
(*   backup_path   TRUE once _create_backup has returned the path          *)
(*   out           the content the call means to write                     *)
(***************************************************************************)
IdleCall ==
    [pc |-> "idle", op |-> "none", edits |-> <<>>,
     old_string |-> <<>>, new_string |-> <<>>, max_replacements |-> 0,
     create_backup |-> FALSE, encoding |-> "utf-8",
     pre |-> Absent, prebak |-> Absent, backup_path |-> FALSE, content |-> <<>>, out |-> <<>>,
     changed_lines |-> 0, replacements |-> -1, result |-> NoResult, ncalls |-> 0]

Return(p, res) == [call EXCEPT ![p].pc = "done", ![p].result = res]

Goto(p, label) == [call EXCEPT ![p].pc = label]

\* The outcomes of an I/O operation: failures happen only where the
\* environment injects them.
IOFail == IF env.faults THEN {FALSE, TRUE} ELSE {FALSE}

(***************************************************************************)
(* Entry of the two operations                                             *)
(***************************************************************************)
CallEdits(p, es, bk, enc) ==
    /\ call[p].pc = "idle"
    /\ call[p].ncalls < env.calls
    /\ call' = [call EXCEPT ![p] =
                 [IdleCall EXCEPT !.pc = "exists", !.op = "edits", !.edits = es,
                                  !.create_backup = bk, !.encoding = enc,
                                  !.pre = target, !.prebak = bak,
                                  !.ncalls = call[p].ncalls + 1]]
    /\ tmp' = [tmp EXCEPT ![p] = Absent]
    /\ UNCHANGED <<target, bak, env>>

CallReplace(p, old, new, max, bk, enc) ==
    /\ call[p].pc = "idle"
    /\ call[p].ncalls < env.calls
    /\ call' = [call EXCEPT ![p] =
                 [IdleCall EXCEPT !.pc = "exists", !.op = "replace",
                                  !.old_string = old, !.new_string = new,
                                  !.max_replacements = max,
                                  !.create_backup = bk, !.encoding = enc,
                                  !.pre = target, !.prebak = bak,
                                  !.ncalls = call[p].ncalls + 1]]
    /\ tmp' = [tmp EXCEPT ![p] = Absent]
    /\ UNCHANGED <<target, bak, env>>

\* path_obj.exists() and path_obj.is_file()
CheckPath(p) ==
    /\ call[p].pc = "exists"
    /\ call' = IF ~Exists(target) THEN Return(p, Failure("FileNotFound"))
               ELSE IF ~IsFile(target) THEN Return(p, Failure("NotAFile"))
               ELSE IF call[p].create_backup THEN Goto(p, "backup")
               ELSE IF call[p].op = "edits" THEN Goto(p, "validate")
               ELSE Goto(p, "read")
    /\ UNCHANGED <<target, bak, tmp, env>>

\* A backup whose failure is swallowed: the call goes on as if the copy
\* had been made.
CreateBackup_IgnoreFailure(p) ==
    /\ call[p].pc = "backup"
    /\ \E fail \in IOFail :
         /\ call' = [call EXCEPT ![p].backup_path = TRUE,
                         ![p].pc = IF call[p].op = "edits"
                                   THEN "validate" ELSE "read"]
         /\ bak' = IF fail \/ ~IsFile(target) THEN bak ELSE File(target.data)
    /\ UNCHANGED <<target, tmp, env>>

\* _create_backup: shutil.copy2(file_path, file_path + ".bak").  A copy that
\* fails leaves the backup path as it was, or holding any part of the copy.
CreateBackup(p) ==
    /\ call[p].pc = "backup"
    /\ \E fail \in IOFail :
         IF ~(Exists(target) /\ IsFile(target))
         THEN /\ call' = Return(p, Failure("BackupFailed"))
              /\ bak' = bak
         ELSE IF fail
         THEN /\ call' = Return(p, Failure("BackupFailed"))
              /\ bak' \in {bak} \cup {File(d) : d \in Prefixes(target.data)}
         ELSE /\ call' = [call EXCEPT ![p].backup_path = TRUE,
                             ![p].pc = IF call[p].op = "edits"
                                       THEN "validate" ELSE "read"]
              /\ bak' = File(target.data)
    /\ UNCHANGED <<target, tmp, env>>

\* The validation loop over the sorted edits.
Validate(p) ==
    /\ call[p].pc = "validate"
    /\ LET err == ValidateEdits(SortedEdits(call[p].edits))
       IN  call' = IF err # "none" THEN Return(p, Failure(err))
                   ELSE Goto(p, "read")
    /\ UNCHANGED <<target, bak, tmp, env>>

\* open(file_path, 'r').readlines(), then the loop that applies the edits
\* to the lines in memory.
ReadAndApply(p) ==
    /\ call[p].pc = "read"
    /\ call[p].op = "edits"
    /\ \E fail \in IOFail :
         call' =
           IF fail \/ ~IsFile(target) \/ ~SupportedEncoding(call[p].encoding)
           THEN Return(p, Failure("IOError"))
           ELSE IF ~Decodable(target.data, call[p].encoding)
           THEN Return(p, Failure(EncodingError(call[p].encoding)))
           ELSE LET lines == ReadLines(target.data)
                    r == FoldEdits(call[p].edits, lines)
                IN  IF r.error # "none" THEN Return(p, Failure(r.error))
                    ELSE [call EXCEPT ![p].pc = "mktemp",
                                      ![p].content = Flatten(lines),
                                      ![p].out = Flatten(r.lines),
                                      ![p].changed_lines = r.changed_lines]
    /\ UNCHANGED <<target, bak, tmp, env>>

\* A read that falls back on Latin-1 when the file does not decode in the
\* encoding of the call.
ReadAndReplace_FallbackLatin1(p) ==
    /\ call[p].pc = "read"
    /\ call[p].op = "replace"
    /\ \E fail \in IOFail :
         call' =
           IF fail \/ ~IsFile(target) \/ ~SupportedEncoding(call[p].encoding)
           THEN Return(p, Failure("IOError"))
           ELSE LET content == ReadText(target.data)
                    new_content == NewContent(content, call[p].old_string,
                                      call[p].new_string, call[p].max_replacements)
                    replacements == Replacements(content, call[p].old_string,
                                      call[p].max_replacements)
                IN  IF ~Contains(content, call[p].old_string)
                       \/ content = new_content
                    THEN [call EXCEPT ![p].pc = "cleanup", ![p].content = content,
                                      ![p].out = content]
                    ELSE [call EXCEPT ![p].pc = "mktemp",
                                      ![p].content = content,
                                      ![p].out = new_content,
                                      ![p].replacements = replacements,
                                      ![p].changed_lines = DiffLines(content, new_content)]
    /\ UNCHANGED <<target, bak, tmp, env>>

\* open(file_path, 'r').read(), the search for old_string and the
\* replacement in memory.
ReadAndReplace(p) ==
    /\ call[p].pc = "read"
    /\ call[p].op = "replace"
    /\ \E fail \in IOFail :
         call' =
           IF fail \/ ~IsFile(target) \/ ~SupportedEncoding(call[p].encoding)
           THEN Return(p, Failure("IOError"))
           ELSE IF ~Decodable(target.data, call[p].encoding)
           THEN Return(p, Failure(EncodingError(call[p].encoding)))
           ELSE LET content == ReadText(target.data)
                    new_content == NewContent(content, call[p].old_string,
                                      call[p].new_string, call[p].max_replacements)
                    replacements == Replacements(content, call[p].old_string,
                                      call[p].max_replacements)
                IN  IF ~Contains(content, call[p].old_string)
                       \/ content = new_content
                    THEN [call EXCEPT ![p].pc = "cleanup", ![p].content = content,
                                      ![p].out = content]
                    ELSE [call EXCEPT ![p].pc = "mktemp",
                                      ![p].content = content,
                                      ![p].out = new_content,
                                      ![p].replacements = replacements,
                                      ![p].changed_lines = DiffLines(content, new_content)]
    /\ UNCHANGED <<target, bak, tmp, env>>

\* tempfile.NamedTemporaryFile(mode='w', delete=False) and the write of the
\* new content.  A write that fails leaves a part of it in the file.
WriteTemp(p) ==
    /\ call[p].pc = "mktemp"
    /\ \E fail \in IOFail :
         IF fail
         THEN /\ call' = Return(p, Failure("IOError"))
              /\ \E d \in Prefixes(call[p].out) \cup {<<>>} :
                    tmp' = [tmp EXCEPT ![p] = File(d)]
         ELSE /\ call' = Goto(p, IF call[p].op = "edits" THEN "cmp" ELSE "move")
              /\ tmp' = [tmp EXCEPT ![p] = File(call[p].out)]
    /\ UNCHANGED <<target, bak, env>>

\* changed_lines == 0 and filecmp.cmp(temp_path, file_path): the temporary
\* file is removed and the call goes on to remove the backup.
Compare(p) ==
    /\ call[p].pc = "cmp"
    /\ \E same_mtime \in BOOLEAN :
         IF call[p].changed_lines = 0 /\ ~Exists(target)
         THEN /\ call' = Return(p, Failure("IOError"))
              /\ tmp' = tmp
         ELSE IF call[p].changed_lines = 0 /\ IsFile(target)
                 /\ FileCmp(tmp[p], target, same_mtime)
         THEN /\ call' = Goto(p, "cleanup")
              /\ tmp' = [tmp EXCEPT ![p] = Absent]
         ELSE /\ call' = Goto(p, "move")
              /\ tmp' = tmp
    /\ UNCHANGED <<target, bak, env>>

\* A no-change return that leaves the backup where it is.
Cleanup_KeepBackup(p) ==
    /\ call[p].pc = "cleanup"
    /\ call' = Return(p, Unchanged)
    /\ UNCHANGED <<target, bak, tmp, env>>

\* A no-change return that puts back the backup the call found.
Cleanup_RestoreEarlier(p) ==
    /\ call[p].pc = "cleanup"
    /\ IF ~call[p].backup_path
       THEN /\ call' = Return(p, Unchanged)
            /\ bak' = bak
       ELSE IF ~Exists(bak)
       THEN /\ call' = Return(p, Failure("IOError"))
            /\ bak' = bak
       ELSE /\ call' = Return(p, Unchanged)
            /\ bak' = call[p].prebak
    /\ UNCHANGED <<target, tmp, env>>

\* The no-change return: os.unlink(backup_path) if a backup was made.
Cleanup(p) ==
    /\ call[p].pc = "cleanup"
    /\ IF ~call[p].backup_path
       THEN /\ call' = Return(p, Unchanged)
            /\ bak' = bak
       ELSE IF ~Exists(bak)
       THEN /\ call' = Return(p, Failure("IOError"))
            /\ bak' = bak
       ELSE /\ call' = Return(p, Unchanged)
            /\ bak' = Absent
    /\ UNCHANGED <<target, tmp, env>>

\* shutil.move(temp_path, file_path): os.rename where it works; where it
\* raises OSError (the temporary directory is on another file system, or
\* the rename is refused) the target is opened for writing, which empties
\* it, and the copy follows.
MoveOutcomes ==
    (IF env.same_device THEN {"rename"} ELSE {"copy"})
    \cup (IF env.faults THEN {"copy", "error"} ELSE {})

\* A move that looks before it writes: it is refused when the target no
\* longer holds what the call read.
Move_Guarded(p) ==
    /\ call[p].pc = "move"
    /\ \E o \in MoveOutcomes :
         IF ~(IsFile(target) /\ ReadText(target.data) = call[p].content)
         THEN /\ target' = target
              /\ tmp' = [tmp EXCEPT ![p] = Absent]
              /\ call' = Return(p, Failure("IOError"))
         ELSE IF o = "rename"
         THEN /\ target' = File(tmp[p].data)
              /\ tmp' = [tmp EXCEPT ![p] = Absent]
              /\ call' = Return(p, Success(call[p].changed_lines,
                                    call[p].backup_path, call[p].replacements))
         ELSE IF o = "copy"
         THEN /\ target' = File(<<>>)
              /\ tmp' = tmp
              /\ call' = Goto(p, "copy")
         ELSE /\ target' = target
              /\ tmp' = tmp
              /\ call' = Return(p, Failure("IOError"))
    /\ UNCHANGED <<bak, env>>

\* A move that discards the backup once the new content is in place.
Move_DropBackup(p) ==
    /\ call[p].pc = "move"
    /\ \E o \in MoveOutcomes :
         IF o = "rename"
         THEN /\ target' = File(tmp[p].data)
              /\ tmp' = [tmp EXCEPT ![p] = Absent]
              /\ bak' = IF call[p].backup_path THEN Absent ELSE bak
              /\ call' = Return(p, Success(call[p].changed_lines,
                                    call[p].backup_path, call[p].replacements))
         ELSE IF o = "copy"
         THEN /\ target' = File(<<>>)
              /\ tmp' = tmp
              /\ bak' = bak
              /\ call' = Goto(p, "copy")
         ELSE /\ target' = target
              /\ tmp' = tmp
              /\ bak' = bak
              /\ call' = Return(p, Failure("IOError"))
    /\ UNCHANGED env

Move(p) ==
    /\ call[p].pc = "move"
    /\ \E o \in MoveOutcomes :
         IF o = "rename"
         THEN /\ target' = File(tmp[p].data)
              /\ tmp' = [tmp EXCEPT ![p] = Absent]
              /\ call' = Return(p, Success(call[p].changed_lines,
                                    call[p].backup_path, call[p].replacements))
         ELSE IF o = "copy"
         THEN /\ target' = File(<<>>)
              /\ tmp' = tmp
              /\ call' = Goto(p, "copy")
         ELSE /\ target' = target
              /\ tmp' = tmp
              /\ call' = Return(p, Failure("IOError"))
    /\ UNCHANGED <<bak, env>>

\* The copy of shutil.move's fallback, then os.unlink(temp_path).
CopyOver(p) ==
    /\ call[p].pc = "copy"
    /\ \E fail \in IOFail :
         IF fail
         THEN /\ \E d \in Prefixes(tmp[p].data) \cup {<<>>} : target' = File(d)
              /\ tmp' = tmp
              /\ call' = Return(p, Failure("IOError"))
         ELSE /\ target' = File(tmp[p].data)
              /\ tmp' = [tmp EXCEPT ![p] = Absent]
              /\ call' = Return(p, Success(call[p].changed_lines,
                                    call[p].backup_path, call[p].replacements))
    /\ UNCHANGED <<bak, env>>

\* The caller takes the result; the process may call again.
Finish(p) ==
    /\ call[p].pc = "done"
    /\ call' = [call EXCEPT ![p] = [IdleCall EXCEPT !.ncalls = call[p].ncalls]]
    /\ UNCHANGED <<target, bak, tmp, env>>

(***************************************************************************)
(* Inputs: files of numbered lines, edits over their line numbers          *)
(***************************************************************************)
Styles == {"lf", "crlf", "ff"}

\* Line i of a file: its number, then the terminator of the file's style
\* ("ff": a form feed inside the line).
LineOf(i, style) ==
    IF style = "crlf" THEN <<ToString(i), CR, LF>>
    ELSE IF style = "ff" THEN <<ToString(i), FF, ToString(i), LF>>
    ELSE <<ToString(i), LF>>

\* A file of n lines; closed = the last line has its terminator.
FileData(n, style, closed) ==
    LET d == Flatten([i \in 1..n |-> LineOf(i, style)])
    IN  IF closed \/ n = 0 THEN d
        ELSE SubSeq(d, 1, Len(d) - (IF style = "crlf" THEN 2 ELSE 1))

EditFiles ==
    {FileData(n, style, closed) :
        n \in 0..MaxLines, style \in Styles, closed \in BOOLEAN}

\* The text of lines s..e of the file, as the engine reads them.
OrigText(d, s, e) == Flatten(Slice(ReadLines(d), s - 1, e))

FixedContents == {<<>>, <<"x", LF>>, <<"x">>, <<"x", LF, "y", LF>>, <<"x", FF, "y">>}

SingleEdits(d) ==
    {LineEdit(s, e, c) : s \in 0..(MaxLines + 1), e \in 0..(MaxLines + 1),
                         c \in FixedContents}
    \cup {LineEdit(s, e, OrigText(d, s, e)) :
             s \in 1..(MaxLines + 1), e \in 1..(MaxLines + 1)}

PairEdits(d) ==
    {LineEdit(s, s + k, c) : s \in 0..(MaxLines + 1), k \in {-1, 0, 1},
                             c \in {<<>>, <<"x", LF>>}}
    \cup {LineEdit(s, s + k, OrigText(d, s, s + j)) :
             s \in 1..MaxLines, k \in {0, 1}, j \in {0, 1}}

EditBatches(d) ==
    {<<e>> : e \in SingleEdits(d)}
    \cup {<<e1, e2>> : e1 \in PairEdits(d), e2 \in PairEdits(d)}

(***************************************************************************)
(* SpecEdits: one caller, apply_line_edits with and without backups, no    *)
(* injected failures                                                       *)
(***************************************************************************)
InitEdits ==
    /\ target \in {File(d) : d \in EditFiles}
    /\ bak = Absent
    /\ tmp = [p \in Procs |-> Absent]
    /\ call = [p \in Procs |-> IdleCall]
    /\ env = [faults |-> FALSE, same_device |-> TRUE, calls |-> 1]

StartEdits(p) ==
    /\ call[p].pc = "idle"
    /\ call[p].ncalls < env.calls
    /\ \E es \in EditBatches(target.data), bk \in BOOLEAN :
          CallEdits(p, es, bk, "utf-8")

NextEdits ==
    \/ StartEdits(1)
    \/ CheckPath(1)
    \/ CreateBackup(1)
    \/ Validate(1)
    \/ ReadAndApply(1)
    \/ WriteTemp(1)
    \/ Compare(1)
    \/ Cleanup(1)
    \/ Move(1)
    \/ Finish(1)

SpecEdits == InitEdits /\ [][NextEdits]_vars

(***************************************************************************)
(* SpecReplace: one caller, replace_string, no injected failures           *)
(***************************************************************************)
MaxText == 3

TextBytes == {"a", "b", LF, CR}

RECURSIVE SeqsUpTo(_, _)
SeqsUpTo(S, n) ==
    IF n = 0 THEN {<<>>}
    ELSE LET shorter == SeqsUpTo(S, n - 1)
         IN  shorter \cup {Append(t, x) : t \in shorter, x \in S}

ReplaceFiles == SeqsUpTo(TextBytes, MaxText)

OldStrings == {<<>>, <<"a">>, <<"a", "a">>, <<"a", "b">>, <<"a", LF>>, <<"z">>}
NewStrings == {<<>>, <<"a">>, <<"b">>, <<"b", "a">>, <<"a", "a">>}

InitReplace ==
    /\ target \in {File(d) : d \in ReplaceFiles}
    /\ bak \in {Absent, File(<<"o">>)}
    /\ tmp = [p \in Procs |-> Absent]
    /\ call = [p \in Procs |-> IdleCall]
    /\ env = [faults |-> FALSE, same_device |-> TRUE, calls |-> 1]

StartReplace(p) ==
    /\ call[p].pc = "idle"
    /\ call[p].ncalls < env.calls
    /\ \E old \in OldStrings, new \in NewStrings, max \in 0..2, bk \in BOOLEAN :
          CallReplace(p, old, new, max, bk, "utf-8")

NextReplace ==
    \/ StartReplace(1)
    \/ CheckPath(1)
    \/ CreateBackup(1)
    \/ ReadAndReplace(1)
    \/ WriteTemp(1)
    \/ Cleanup(1)
    \/ Move(1)
    \/ Finish(1)

SpecReplace == InitReplace /\ [][NextReplace]_vars

(***************************************************************************)
(* Spec: one caller making up to MaxCalls calls of either operation, with  *)
(* or without backups, in every environment: I/O operations may fail, and  *)
(* the temporary directory may be on another file system than the target.  *)
(***************************************************************************)
IOFiles == {<<>>, FileData(2, "lf", TRUE), <<"1", CR, LF>>, <<BAD, LF>>}

IOBatches ==
    {<<LineEdit(1, 1, <<"x", LF>>)>>, <<LineEdit(1, 1, <<"1", LF>>)>>,
     <<LineEdit(2, 2, <<>>)>>, <<LineEdit(0, 1, <<"x">>)>>,
     <<LineEdit(MaxLines + 2, MaxLines + 2, <<"x">>)>>,
     <<LineEdit(1, 1, <<"x", LF>>), LineEdit(2, 2, <<"y", LF>>)>>}

Encodings == {"utf-8", "latin-1"}

Init ==
    /\ target \in {Absent, Dir} \cup {File(d) : d \in IOFiles}
    /\ bak \in {Absent, File(<<"o">>)}
    /\ tmp = [p \in Procs |-> Absent]
    /\ call = [p \in Procs |-> IdleCall]
    /\ env \in [faults : BOOLEAN, same_device : BOOLEAN, calls : {MaxCalls}]

StartEditsIO(p) ==
    /\ call[p].pc = "idle"
    /\ call[p].ncalls < env.calls
    /\ \E es \in IOBatches, bk \in BOOLEAN, enc \in Encodings :
          CallEdits(p, es, bk, enc)

StartReplaceIO(p) ==
    /\ call[p].pc = "idle"
    /\ call[p].ncalls < env.calls
    /\ \E old \in {<<"1">>, <<"z">>}, new \in {<<"x">>, <<"1">>}, max \in 0..1,
          bk \in BOOLEAN, enc \in Encodings :
          CallReplace(p, old, new, max, bk, enc)

Next ==
    \/ StartEditsIO(1)
    \/ StartReplaceIO(1)
    \/ CheckPath(1)
    \/ CreateBackup(1)
    \/ Validate(1)
    \/ ReadAndApply(1)
    \/ ReadAndReplace(1)
    \/ WriteTemp(1)
    \/ Compare(1)
    \/ Cleanup(1)
    \/ Move(1)
    \/ CopyOver(1)
    \/ Finish(1)

Spec == Init /\ [][Next]_vars

(***************************************************************************)
(* Vocabulary of the properties                                            *)
(***************************************************************************)
Returned(p, op) == call[p].pc = "done" /\ call[p].op = op

\* The lines of the file the call began with, as the engine reads them.
PreReadable(p) == IsFile(call[p].pre) /\ Decodable(call[p].pre.data, call[p].encoding)
PreLines(p) == ReadLines(call[p].pre.data)
PreText(p) == ReadText(call[p].pre.data)

\* The last original line an edit spans, and the number it spans.
SpanEnd(e, total) == Min(e.line_end, total)
Span(e, total) == SpanEnd(e, total) - e.line_start + 1

EditErrors(e, total) ==
    (IF e.line_start < 1 THEN {"InvalidLineNumber"} ELSE {})
    \cup (IF e.line_end < e.line_start THEN {"InvalidLineRange"} ELSE {})
    \cup (IF e.line_start > total THEN {"LineBeyondEOF"} ELSE {})

ValidEdit(e, total) == EditErrors(e, total) = {}

ValidBatch(es, total) == \A i \in 1..Len(es) : ValidEdit(es[i], total)

\* The replacement text as it lands in the file: read character by
\* character, every line boundary that is not the end of the text and is
\* not an LF is followed by an LF.
RECURSIVE Forced(_)
Forced(c) ==
    IF Len(c) <= 1 THEN c
    ELSE IF c[1] = CR /\ c[2] = LF THEN <<CR, LF>> \o Forced(SubSeq(c, 3, Len(c)))
    ELSE IF c[1] \in {CR, FF} THEN <<c[1], LF>> \o Forced(Tail(c))
    ELSE <<c[1]>> \o Forced(Tail(c))

\* The file rebuilt from the original lines k..total: a line at which an
\* edit of the batch starts is replaced, with the rest of that edit's
\* range, by the edit's text; every other line is kept.
RECURSIVE Rebuild(_, _, _)
Rebuild(lines, es, k) ==
    IF k > Len(lines) THEN <<>>
    ELSE IF \E i \in 1..Len(es) : es[i].line_start = k
         THEN LET i == CHOOSE j \in 1..Len(es) : es[j].line_start = k
              IN  Forced(es[i].new_content)
                  \o Rebuild(lines, es, SpanEnd(es[i], Len(lines)) + 1)
         ELSE lines[k] \o Rebuild(lines, es, k + 1)

Disjoint(es, total) ==
    \A i, j \in 1..Len(es) :
        i # j => \/ SpanEnd(es[i], total) < es[j].line_start
                 \/ SpanEnd(es[j], total) < es[i].line_start

\* The file holds text t: byte for byte when the call wrote it, and as read
\* in text mode when the call left the file alone.
Holds(p, t) ==
    /\ IsFile(target)
    /\ IF call[p].result.unchanged THEN target = call[p].pre /\ PreText(p) = t
       ELSE target.data = t

(***************************************************************************)
(* C3: an edit batch with an edit that has line_start < 1, line_end <      *)
(* line_start or line_start beyond the original line count is rejected     *)
(* with the error of such an edit; the call never gets to write, and the   *)
(* target keeps its content.                                               *)
(***************************************************************************)
C3_InvalidBatchRejected ==
    \A p \in Procs :
        (call[p].op = "edits" /\ PreReadable(p)
         /\ ~ValidBatch(call[p].edits, Len(PreLines(p))))
        => /\ target = call[p].pre
           /\ tmp[p] = Absent
           /\ call[p].pc \in {"exists", "backup", "validate", "read", "done", "idle"}
           /\ call[p].pc \in {"done", "idle"} =>
                /\ ~call[p].result.success
                /\ \E i \in 1..Len(call[p].edits) :
                      call[p].result.error
                          \in EditErrors(call[p].edits[i], Len(PreLines(p)))

C3_Witness ==
    /\ Returned(1, "edits")
    /\ Len(call[1].edits) = 2
    /\ call[1].result.error = "LineBeyondEOF"
    /\ \E i \in 1..2 : ValidEdit(call[1].edits[i], Len(PreLines(1)))
    /\ Len(PreLines(1)) >= 2

(***************************************************************************)
(* C4: a single valid edit leaves the file equal to the original lines     *)
(* before line_start, the replacement text, and the original lines after   *)
(* min(line_end, total); when the replacement differs from the lines it    *)
(* replaces, changed_lines is min(line_end, total) - line_start + 1.       *)
(***************************************************************************)
C4_SingleEdit ==
    \A p \in Procs :
        (Returned(p, "edits") /\ Len(call[p].edits) = 1 /\ PreReadable(p)
         /\ ValidEdit(call[p].edits[1], Len(PreLines(p))))
        => LET e == call[p].edits[1]
               lines == PreLines(p)
               total == Len(lines)
               expected == Flatten(SubSeq(lines, 1, e.line_start - 1))
                           \o Forced(e.new_content)
                           \o Flatten(SubSeq(lines, SpanEnd(e, total) + 1, total))
           IN  /\ call[p].result.success
               /\ Holds(p, expected)
               /\ expected # PreText(p) =>
                     call[p].result.changed_lines = Span(e, total)

C4_Witness ==
    /\ Returned(1, "edits")
    /\ call[1].edits = <<LineEdit(2, 3, <<"x", LF, "y", LF>>)>>
    /\ call[1].pre = File(FileData(4, "lf", TRUE))
    /\ call[1].result.changed_lines = 2
    /\ target.data = <<"1", LF, "x", LF, "y", LF, "4", LF>>

(***************************************************************************)
(* C5: a batch of edits with pairwise disjoint line ranges leaves the file *)
(* with every range, addressed by its original line numbers, replaced by   *)
(* its text: the result does not depend on the order of the batch.         *)
(***************************************************************************)
C5_DisjointBatch ==
    \A p \in Procs :
        (Returned(p, "edits") /\ PreReadable(p)
         /\ ValidBatch(call[p].edits, Len(PreLines(p)))
         /\ Disjoint(call[p].edits, Len(PreLines(p))))
        => /\ call[p].result.success
           /\ Holds(p, Rebuild(PreLines(p), call[p].edits, 1))

C5_Witness ==
    /\ Returned(1, "edits")
    /\ Len(call[1].edits) = 2
    /\ ValidBatch(call[1].edits, Len(PreLines(1)))
    /\ Disjoint(call[1].edits, Len(PreLines(1)))
    /\ call[1].edits[1].line_start < call[1].edits[2].line_start
    /\ call[1].edits[1].new_content = <<>>
    /\ call[1].edits[2].new_content = <<"x", LF>>
    /\ call[1].result.success
    /\ Len(target.data) < Len(call[1].pre.data)

(***************************************************************************)
(* C6: a batch whose folded result is byte for byte the original file,     *)
(* whatever its edits do to their own slices, is a no-op: success with     *)
(* changed_lines = 0 and metadata.unchanged, no backup_path, the backup    *)
(* removed and the target as it was.                                       *)
(***************************************************************************)
C6_NetIdentityIsNoOp ==
    \A p \in Procs :
        (Returned(p, "edits") /\ PreReadable(p)
         /\ ValidBatch(call[p].edits, Len(PreLines(p)))
         /\ call[p].out = call[p].pre.data)
        => /\ call[p].result = Unchanged
           /\ ~Exists(bak)
           /\ target = call[p].pre

(***************************************************************************)
(* C7: a single edit whose new_content is the original text of exactly its *)
(* line range is a no-op: the file is unchanged, changed_lines = 0,        *)
(* metadata.unchanged is set, there is no backup_path and the backup of    *)
(* the call is gone.                                                       *)
(***************************************************************************)
C7_IdentityEditIsNoOp ==
    \A p \in Procs :
        (Returned(p, "edits") /\ PreReadable(p) /\ Len(call[p].edits) = 1
         /\ ValidEdit(call[p].edits[1], Len(PreLines(p)))
         /\ call[p].edits[1].line_end <= Len(PreLines(p))
         /\ call[p].edits[1].new_content
               = OrigText(call[p].pre.data, call[p].edits[1].line_start,
                          call[p].edits[1].line_end))
        => /\ call[p].result = Unchanged
           /\ ~Exists(bak)
           /\ target = call[p].pre

(***************************************************************************)
(* C8 as claimed: on success changed_lines is the sum over all edits of    *)
(* the original lines each spans, whether or not an edit's replacement     *)
(* equals the text it replaces.                                            *)
(***************************************************************************)
RECURSIVE SumSpans(_, _)
SumSpans(es, total) ==
    IF es = <<>> THEN 0 ELSE Span(Head(es), total) + SumSpans(Tail(es), total)

C8_SumOfAllSpans ==
    \A p \in Procs :
        (Returned(p, "edits") /\ call[p].result.success)
        => call[p].result.changed_lines = SumSpans(call[p].edits, Len(PreLines(p)))

(***************************************************************************)
(* C8 amended: on success changed_lines is the sum of the original lines   *)
(* spanned by those edits whose replacement lines differ from the lines    *)
(* they replace in the buffer at the time the edit is applied (descending  *)
(* line_start); an edit that puts back what is there counts for 0.         *)
(***************************************************************************)
\* The buffer when the i-th edit, in the order of application, is applied.
BufferBefore(sorted, lines, i) ==
    ApplyEdits(SubSeq(sorted, 1, i - 1), Len(lines),
               [error |-> "none", lines |-> lines, changed_lines |-> 0]).lines

Alters(sorted, lines, i) ==
    Slice(BufferBefore(sorted, lines, i), sorted[i].line_start - 1,
          SpanEnd(sorted[i], Len(lines)))
        # CutLF(Forced(sorted[i].new_content), <<>>)

RECURSIVE SumAltering(_, _, _)
SumAltering(sorted, lines, i) ==
    IF i > Len(sorted) THEN 0
    ELSE (IF Alters(sorted, lines, i) THEN Span(sorted[i], Len(lines)) ELSE 0)
         + SumAltering(sorted, lines, i + 1)

C8_SumOfAlteringSpans ==
    \A p \in Procs :
        (Returned(p, "edits") /\ call[p].result.success)
        => call[p].result.changed_lines
              = SumAltering(SortedEdits(call[p].edits), PreLines(p), 1)

C8_Witness ==
    /\ Returned(1, "edits")
    /\ call[1].result.success
    /\ Len(call[1].edits) = 2
    /\ Disjoint(call[1].edits, Len(PreLines(1)))
    /\ call[1].result.changed_lines = 2
    /\ SumSpans(call[1].edits, Len(PreLines(1))) = 3

(***************************************************************************)
(* C1: with backups enabled the target changes only after the call has     *)
(* made its backup: whenever the target differs from what the call found,  *)
(* <path>.bak holds what the call found, and a successful result names it; *)
(* a call whose backup failed returns success = false with the target      *)
(* untouched.                                                              *)
(***************************************************************************)
C1_BackupBeforeChange ==
    \A p \in Procs :
        (call[p].op # "none" /\ call[p].create_backup)
        => /\ target # call[p].pre =>
                /\ call[p].backup_path
                /\ bak = call[p].pre
           /\ (call[p].pc = "done" /\ call[p].result.success
               /\ target # call[p].pre) => call[p].result.backup_path
           /\ (~call[p].backup_path /\ call[p].pc \notin {"exists", "backup"}) =>
                /\ call[p].pc = "done"
                /\ ~call[p].result.success
                /\ target = call[p].pre

C1_Witness ==
    /\ call[1].pc = "done"
    /\ call[1].create_backup
    /\ env.faults
    /\ call[1].result.success
    /\ target # call[1].pre
    /\ call[1].prebak = File(<<"o">>)
    /\ bak = call[1].pre
    /\ call[1].result.backup_path

(***************************************************************************)
(* C2: at every point of a call and after it, on every path, the target    *)
(* holds the complete original content or the complete new content.        *)
(***************************************************************************)
C2_OriginalOrNew ==
    \A p \in Procs :
        (call[p].op # "none" /\ IsFile(call[p].pre))
        => \/ target = call[p].pre
           \/ /\ call[p].pc \in {"copy", "done"}
              /\ target = File(call[p].out)

(***************************************************************************)
(* C9: replace_string with an old_string that does not occur in the text   *)
(* of the file is a no-op: success with changed_lines = 0 and              *)
(* metadata.unchanged, the file byte for byte as it was, and no backup of  *)
(* the call left at <path>.bak.                                            *)
(***************************************************************************)
Occurs(t, old, i) ==
    i + Len(old) <= Len(t) /\ SubSeq(t, i + 1, i + Len(old)) = old

C9_AbsentOldStringIsNoOp ==
    \A p \in Procs :
        (Returned(p, "replace") /\ PreReadable(p)
         /\ \A i \in 0..Len(PreText(p)) : ~Occurs(PreText(p), call[p].old_string, i))
        => /\ call[p].result = Unchanged
           /\ target = call[p].pre
           /\ bak = IF call[p].create_backup THEN Absent ELSE call[p].prebak

C9_Witness ==
    /\ Returned(1, "replace")
    /\ call[1].create_backup
    /\ call[1].prebak = File(<<"o">>)
    /\ call[1].old_string = <<"a", "b">>
    /\ target = File(<<"a", CR, LF>>)
    /\ call[1].result = Unchanged
    /\ bak = Absent

(***************************************************************************)
(* C10: replace_string replaces, from the left, the first min(max, n) of   *)
(* the n non-overlapping occurrences of old_string when max > 0, all n     *)
(* when max = 0, and keeps the text between them; a result that changed    *)
(* the file reports that number as metadata.replacements.                  *)
(***************************************************************************)
\* The non-overlapping occurrences, by position: each is the first at or
\* after the end of the one before.
RECURSIVE Occs(_, _, _)
Occs(t, old, from) ==
    LET at == {i \in from..Len(t) : Occurs(t, old, i)}
    IN  IF at = {} THEN <<>>
        ELSE LET i == CHOOSE j \in at : \A k \in at : j <= k
             IN  <<i>> \o Occs(t, old, i + Max(Len(old), 1))

\* The text from position pos on, with the first k of the occurrences
\* replaced.
RECURSIVE Splice(_, _, _, _, _, _)
Splice(t, old, new, occs, k, pos) ==
    IF k = 0 \/ occs = <<>> THEN SubSeq(t, pos + 1, Len(t))
    ELSE SubSeq(t, pos + 1, Head(occs)) \o new
         \o Splice(t, old, new, Tail(occs), k - 1, Head(occs) + Len(old))

C10_ReplaceFirstK ==
    \A p \in Procs :
        (Returned(p, "replace") /\ PreReadable(p))
        => LET t == PreText(p)
               occs == Occs(t, call[p].old_string, 0)
               k == IF call[p].max_replacements > 0
                    THEN Min(call[p].max_replacements, Len(occs)) ELSE Len(occs)
           IN  /\ call[p].result.success
               /\ Holds(p, Splice(t, call[p].old_string, call[p].new_string,
                                  occs, k, 0))
               /\ ~call[p].result.unchanged => call[p].result.replacements = k

C10_Witness ==
    /\ Returned(1, "replace")
    /\ call[1].pre = File(<<"a", "a", "a">>)
    /\ call[1].old_string = <<"a">>
    /\ call[1].new_string = <<"b">>
    /\ call[1].max_replacements = 2
    /\ call[1].result.replacements = 2
    /\ target = File(<<"b", "b", "a">>)

(***************************************************************************)
(* SpecRoundTrip: replace_string(path, X, Y) by caller 1, then, once it     *)
(* has returned, replace_string(path, Y, X) by caller 2; both unbounded,   *)
(* without backups, no injected failures.  The record of the first call    *)
(* stays in place, so that the file it found can be compared with the file *)
(* the second call leaves.                                                 *)
(***************************************************************************)
RoundTripOld == {<<"a">>, <<"a", "a">>, <<"a", "b">>, <<"a", LF>>}

StartFirst(p) ==
    /\ call[p].pc = "idle"
    /\ call[p].ncalls < env.calls
    /\ \E old \in RoundTripOld, new \in NewStrings :
          CallReplace(p, old, new, 0, FALSE, "utf-8")

StartSecond(p, q) ==
    /\ call[q].pc = "idle"
    /\ call[q].ncalls < env.calls
    /\ call[p].pc = "done"
    /\ call[p].op = "replace"
    /\ CallReplace(q, call[p].new_string, call[p].old_string, 0, FALSE, "utf-8")

InitRoundTrip ==
    /\ target \in {File(d) : d \in ReplaceFiles}
    /\ bak = Absent
    /\ tmp = [p \in Procs |-> Absent]
    /\ call = [p \in Procs |-> IdleCall]
    /\ env = [faults |-> FALSE, same_device |-> TRUE, calls |-> 1]

NextRoundTrip ==
    \/ StartFirst(1)
    \/ StartSecond(1, 2)
    \/ \E p \in Procs : CheckPath(p)
    \/ \E p \in Procs : ReadAndReplace(p)
    \/ \E p \in Procs : WriteTemp(p)
    \/ \E p \in Procs : Cleanup(p)
    \/ \E p \in Procs : Move(p)

SpecRoundTrip == InitRoundTrip /\ [][NextRoundTrip]_vars

\* Every two occurrences of old in t are apart by at least the length of old.
NonOverlapping(t, old) ==
    /\ old # <<>>
    /\ \A i, j \in 0..Len(t) :
          (i < j /\ Occurs(t, old, i) /\ Occurs(t, old, j)) => i + Len(old) <= j

\* The positions at which old occurs in t, overlapping ones included.
AllOccs(t, old) == {i \in 0..Len(t) : Occurs(t, old, i)}

(***************************************************************************)
(* C11: replace_string(path, X, Y) followed by replace_string(path, Y, X), *)
(* both unbounded, on a file all of whose occurrences of X are             *)
(* non-overlapping, leaves the file byte for byte as the first call found  *)
(* it.  The claim is read in its favour: Y is not empty and occurs in the  *)
(* file the first call leaves only as often as X occurred in the file it   *)
(* found, so that the second call can only undo the first.                 *)
(***************************************************************************)
C11_RoundTrip ==
    (/\ Returned(1, "replace") /\ Returned(2, "replace")
     /\ PreReadable(1)
     /\ NonOverlapping(PreText(1), call[1].old_string)
     /\ call[1].new_string # <<>>
     /\ Cardinality(AllOccs(call[2].pre.data, call[1].new_string))
           = Cardinality(AllOccs(PreText(1), call[1].old_string)))
    => /\ call[1].result.success
       /\ call[2].result.success
       /\ target = call[1].pre

(***************************************************************************)
(* C12: apply_line_edits with backups enabled and a batch that passes the  *)
(* validation of its line numbers but has an edit whose line_start exceeds *)
(* the line count of the file fails with LineBeyondEOF; the target is not  *)
(* written, no temporary file is made, the backup made by the call stays   *)
(* at <path>.bak, and the failed result carries no backup_path.            *)
(***************************************************************************)
C12_BeyondEOFKeepsBackup ==
    \A p \in Procs :
        (/\ Returned(p, "edits") /\ call[p].create_backup /\ PreReadable(p)
         /\ ValidateEdits(call[p].edits) = "none"
         /\ \E i \in 1..Len(call[p].edits) :
               call[p].edits[i].line_start > Len(PreLines(p)))
        => /\ call[p].result = Failure("LineBeyondEOF")
           /\ ~call[p].result.backup_path
           /\ target = call[p].pre
           /\ tmp[p] = Absent
           /\ bak = call[p].pre

C12_Witness ==
    /\ Returned(1, "edits")
    /\ call[1].create_backup
    /\ call[1].prebak = Absent
    /\ call[1].pre = File(FileData(3, "lf", TRUE))
    /\ call[1].edits = <<LineEdit(MaxLines + 1, MaxLines + 1, <<"x">>)>>
    /\ call[1].result.error = "LineBeyondEOF"
    /\ bak = File(FileData(3, "lf", TRUE))
    /\ target = call[1].pre

(***************************************************************************)
(* C13: a mutation that changes the file writes the new content to a       *)
(* temporary file in the directory of the target and renames that file     *)
(* over the target.  A file in the directory of the target is on the file  *)
(* system of the target, where the rename is one step: whenever the target *)
(* changes, it becomes the whole content of the temporary file of a call   *)
(* that is moving it, and the temporary file is gone in the same step.     *)
(* The temporary file is where tempfile puts it; env.same_device tells     *)
(* whether that directory is on the file system of the target.             *)
(***************************************************************************)
C13_TempBesideTargetRenamed ==
    [][target' # target =>
         \E p \in Procs :
            /\ call[p].pc = "move"
            /\ tmp[p] = File(call[p].out)
            /\ target' = tmp[p]
            /\ tmp'[p] = Absent]_vars

(***************************************************************************)
(* Range reader (file/reader.py)                                           *)
(*                                                                         *)
(* f.readline() of a text-mode file, on the bytes of the file from offset  *)
(* pos: the line ends after the first LF, CR LF or CR, which is read as    *)
(* LF; at the end of the file the line is empty.                           *)
(***************************************************************************)
Readline(d, pos) ==
    LET ends == {i \in (pos + 1)..Len(d) : d[i] \in {LF, CR}}
    IN  IF ends = {}
        THEN [line |-> SubSeq(d, pos + 1, Len(d)), pos |-> Max(pos, Len(d))]
        ELSE LET i == CHOOSE j \in ends : \A k \in ends : j <= k
             IN  [line |-> Append(SubSeq(d, pos + 1, i - 1), LF),
                  pos |-> IF d[i] = CR /\ i < Len(d) /\ d[i + 1] = LF
                          THEN i + 1 ELSE i]

\* for _ in range(n): line = f.readline(); if not line: break; ...
\* st is [pos, content, line_count]; keep says whether the line is appended
\* to content.
RECURSIVE ReadlineLoop(_, _, _, _)
ReadlineLoop(d, st, n, keep) ==
    IF n <= 0 THEN st
    ELSE LET r == Readline(d, st.pos)
         IN  IF r.line = <<>> THEN st
             ELSE ReadlineLoop(d, [pos |-> r.pos,
                                   content |-> IF keep THEN Append(st.content, r.line)
                                               ELSE st.content,
                                   line_count |-> st.line_count + 1],
                               n - 1, keep)

\* The two loops with a skip loop that runs once too often.
SkipAndRead_SkipOneMore(d, line_range) ==
    LET skipped == ReadlineLoop(d, [pos |-> 0, content |-> <<>>, line_count |-> 0],
                                line_range.start, FALSE)
    IN  ReadlineLoop(d, skipped, line_range.end - line_range.start + 1, TRUE)

\* The two loops of read_line_range: skip start - 1 lines, then read
\* end - start + 1 lines.
SkipAndRead(d, line_range) ==
    LET skipped == ReadlineLoop(d, [pos |-> 0, content |-> <<>>, line_count |-> 0],
                                line_range.start - 1, FALSE)
    IN  ReadlineLoop(d, skipped, line_range.end - line_range.start + 1, TRUE)

\* Whether decoding raises UnicodeDecodeError when the bytes up to offset
\* upto have been consumed: it does when a byte that cannot be decoded is
\* among them, and it may when such a byte lies further on, in the part of
\* the file the text layer has read ahead.
DecodeFails(d, upto, e) ==
    IF e = "latin-1" THEN {FALSE}
    ELSE IF \E i \in 1..Min(upto, Len(d)) : d[i] = BAD THEN {TRUE}
    ELSE IF \E i \in 1..Len(d) : d[i] = BAD THEN {TRUE, FALSE}
    ELSE {FALSE}

LineRange(s, e) == [start |-> s, end |-> e]

NoMetadata == [k \in {} |-> 0]

\* A result whose line range is cut down to the lines in content.
FileReadResult_Clipped(content, line_range, error, has_metadata, metadata) ==
    [content |-> content,
     line_range |-> LineRange(line_range.start,
                              line_range.start + Len(CutLF(content, <<>>)) - 1),
     error |-> error, has_metadata |-> has_metadata, metadata |-> metadata]

\* FileReadResult; has_metadata is FALSE where metadata is None.
FileReadResult(content, line_range, error, has_metadata, metadata) ==
    [content |-> content, line_range |-> line_range, error |-> error,
     has_metadata |-> has_metadata, metadata |-> metadata]

ReadError(line_range, error) ==
    FileReadResult(<<>>, line_range, error, FALSE, NoMetadata)

\* A validation that forgets to compare end with start.
ValidateRange_NoEndCheck(line_range) ==
    IF line_range.start < 1 THEN "Line numbers must be >= 1"
    ELSE "none"

\* The validation of the line range.
ValidateRange(line_range) ==
    IF line_range.start < 1 THEN "Line numbers must be >= 1"
    ELSE IF line_range.end < line_range.start THEN "End line must be >= start line"
    ELSE "none"

(***************************************************************************)
(* State of a read call                                                    *)
(*   op      "read_line_range" or "read_context_around_line"               *)
(*   pre     the target as the call found it                               *)
(***************************************************************************)
ReadCall ==
    [pc |-> "rd_exists", op |-> "read_line_range", line_range |-> LineRange(1, 1),
     encoding |-> "utf-8", line_number |-> 0, context_lines |-> 0,
     pre |-> Absent, opened |-> FALSE,
     result |-> ReadError(LineRange(1, 1), "pending"), ncalls |-> 0]

\* read_line_range returns: to the caller, or into read_context_around_line.
RdReturn(p, res) ==
    [call EXCEPT ![p].result = res,
                 ![p].pc = IF call[p].op = "read_context_around_line"
                           THEN "rd_context" ELSE "done"]

(***************************************************************************)
(* read_line_range and read_context_around_line, step by step              *)
(***************************************************************************)
CallReadLineRange(p, line_range, enc) ==
    /\ call[p].pc = "idle"
    /\ call[p].ncalls < env.calls
    /\ call' = [call EXCEPT ![p] =
                 [ReadCall EXCEPT !.line_range = line_range, !.encoding = enc,
                                  !.pre = target,
                                  !.ncalls = call[p].ncalls + 1]]
    /\ UNCHANGED <<target, bak, tmp, env>>

\* A context read that does not keep the first line of the range at 1.
CallReadContext_NoClamp(p, line_number, context_lines, enc) ==
    /\ call[p].pc = "idle"
    /\ call[p].ncalls < env.calls
    /\ call' = [call EXCEPT ![p] =
                 [ReadCall EXCEPT !.op = "read_context_around_line",
                                  !.line_number = line_number,
                                  !.context_lines = context_lines,
                                  !.line_range =
                                      LineRange(line_number - context_lines,
                                                line_number + context_lines),
                                  !.encoding = enc,
                                  !.pre = target,
                                  !.ncalls = call[p].ncalls + 1]]
    /\ UNCHANGED <<target, bak, tmp, env>>

\* start_line = max(1, line_number - context_lines);
\* end_line = line_number + context_lines; then read_line_range.
CallReadContext(p, line_number, context_lines, enc) ==
    /\ call[p].pc = "idle"
    /\ call[p].ncalls < env.calls
    /\ call' = [call EXCEPT ![p] =
                 [ReadCall EXCEPT !.op = "read_context_around_line",
                                  !.line_number = line_number,
                                  !.context_lines = context_lines,
                                  !.line_range =
                                      LineRange(Max(1, line_number - context_lines),
                                                line_number + context_lines),
                                  !.encoding = enc,
                                  !.pre = target,
                                  !.ncalls = call[p].ncalls + 1]]
    /\ UNCHANGED <<target, bak, tmp, env>>

\* path_obj.exists() and path_obj.is_file()
RdCheckPath(p) ==
    /\ call[p].pc = "rd_exists"
    /\ call' = IF ~Exists(target)
               THEN RdReturn(p, ReadError(call[p].line_range, "File not found"))
               ELSE IF ~IsFile(target)
               THEN RdReturn(p, ReadError(call[p].line_range, "Not a file"))
               ELSE Goto(p, "rd_validate")
    /\ UNCHANGED <<target, bak, tmp, env>>

RdValidate(p) ==
    /\ call[p].pc = "rd_validate"
    /\ LET err == ValidateRange(call[p].line_range)
       IN  call' = IF err # "none" THEN RdReturn(p, ReadError(call[p].line_range, err))
                   ELSE Goto(p, "rd_read")
    /\ UNCHANGED <<target, bak, tmp, env>>

\* open(file_path, 'r', encoding=...), the two readline loops and
\* os.path.getsize(file_path).
RdReadLines(p) ==
    /\ call[p].pc = "rd_read"
    /\ \E fail \in IOFail :
         IF fail \/ ~IsFile(target) \/ ~SupportedEncoding(call[p].encoding)
         THEN call' = RdReturn(p, ReadError(call[p].line_range, "Error reading file"))
         ELSE LET st == SkipAndRead(target.data, call[p].line_range)
              IN  \E bad \in DecodeFails(target.data, st.pos, call[p].encoding) :
                    call' =
                      [(IF bad
                        THEN RdReturn(p, ReadError(call[p].line_range,
                                               EncodingError(call[p].encoding)))
                        ELSE RdReturn(p,
                               FileReadResult(Flatten(st.content), call[p].line_range,
                                  "none", TRUE,
                                  [file_size |-> Len(target.data),
                                   total_lines |-> st.line_count])))
                       EXCEPT ![p].opened = TRUE]
    /\ UNCHANGED <<target, bak, tmp, env>>

\* result.metadata.update({"target_line": ..., "context_lines": ...}), on
\* an empty map where read_line_range returned none.
RdContext(p) ==
    /\ call[p].pc = "rd_context"
    /\ call' = [call EXCEPT
                  ![p].pc = "done",
                  ![p].result.has_metadata = TRUE,
                  ![p].result.metadata =
                      [target_line |-> call[p].line_number,
                       context_lines |-> call[p].context_lines]
                      @@ call[p].result.metadata]
    /\ UNCHANGED <<target, bak, tmp, env>>

(***************************************************************************)
(* SpecRead: one caller reading line ranges and contexts from a path that  *)
(* is missing, a directory or a file; opening the file may fail where the  *)
(* environment injects failures.                                           *)
(***************************************************************************)
ReadFiles ==
    EditFiles \cup {<<"1", CR, "2", LF>>, <<"1", LF, CR>>, <<"1", LF, BAD, LF>>,
                    <<BAD>>, <<LF, LF>>}

InitRead ==
    /\ target \in {Absent, Dir} \cup {File(d) : d \in ReadFiles}
    /\ bak = Absent
    /\ tmp = [p \in Procs |-> Absent]
    /\ call = [p \in Procs |-> IdleCall]
    /\ env \in [faults : BOOLEAN, same_device : {TRUE}, calls : {1}]

StartReadLineRange(p) ==
    /\ call[p].pc = "idle"
    /\ call[p].ncalls < env.calls
    /\ \E s \in 0..(MaxLines + 1), e \in 0..(MaxLines + 2), enc \in Encodings :
          CallReadLineRange(p, LineRange(s, e), enc)

StartReadContext(p) ==
    /\ call[p].pc = "idle"
    /\ call[p].ncalls < env.calls
    /\ \E n \in 0..(MaxLines + 1), k \in 0..2, enc \in Encodings :
          CallReadContext(p, n, k, enc)

\* Caller q reads with read_line_range, from the same path and with the
\* same encoding, the range max(1, n - k) .. n + k of the context read
\* read_context_around_line(path, n, k) that caller p has finished.
StartSameRange(p, q) ==
    /\ call[q].pc = "idle"
    /\ call[q].ncalls < env.calls
    /\ call[p].pc = "done"
    /\ call[p].op = "read_context_around_line"
    /\ CallReadLineRange(q,
          LineRange(Max(1, call[p].line_number - call[p].context_lines),
                    call[p].line_number + call[p].context_lines),
          call[p].encoding)

NextRead ==
    \/ StartReadLineRange(1)
    \/ StartReadContext(1)
    \/ StartSameRange(1, 2)
    \/ \E p \in Procs : RdCheckPath(p)
    \/ \E p \in Procs : RdValidate(p)
    \/ \E p \in Procs : RdReadLines(p)
    \/ RdContext(1)
    \/ Finish(1)

SpecRead == InitRead /\ [][NextRead]_vars

(***************************************************************************)
(* Vocabulary of the properties of the range reader                        *)
(***************************************************************************)
ReadOps == {"read_line_range", "read_context_around_line"}

\* read_line_range has returned, to the caller or into the context read.
RdReturned(p) == call[p].op \in ReadOps /\ call[p].pc \in {"rd_context", "done"}

\* The call read a file that can be decoded, and no failure was injected.
RdReadable(p) == ~env.faults /\ PreReadable(p)

(***************************************************************************)
(* C14: for a regular file of L lines that can be read and a range with    *)
(* 1 <= start <= end, read_line_range returns without error the lines      *)
(* start .. min(end, L) of the file, in order, each with its terminator as *)
(* read in text mode: end - start + 1 lines when L >= end, and             *)
(* max(0, L - start + 1) lines when the file is shorter.                   *)
(***************************************************************************)
C14_ExactlyTheLinesOfTheRange ==
    \A p \in Procs :
        (/\ RdReturned(p) /\ RdReadable(p)
         /\ 1 <= call[p].line_range.start
         /\ call[p].line_range.start <= call[p].line_range.end)
        => LET r == call[p].line_range
               lines == PreLines(p)
               L == Len(lines)
               got == CutLF(call[p].result.content, <<>>)
           IN  /\ call[p].result.error = "none"
               /\ got = SubSeq(lines, r.start, Min(r.end, L))
               /\ call[p].result.content = Flatten(got)
               /\ Len(got) = IF L >= r.end THEN r.end - r.start + 1
                             ELSE Max(0, L - r.start + 1)

C14_Witness ==
    /\ call[1].op = "read_line_range"
    /\ call[1].pc = "done"
    /\ ~env.faults
    /\ call[1].pre = File(FileData(4, "crlf", TRUE))
    /\ call[1].line_range = LineRange(2, 3)
    /\ call[1].result.error = "none"
    /\ call[1].result.content = <<"2", LF, "3", LF>>

(***************************************************************************)
(* C15 as claimed: read_line_range with end < start fails with "End line   *)
(* must be >= start line" without opening the file, for every path,        *)
(* missing paths and directories included.                                 *)
(***************************************************************************)
C15_InvalidRangeForEveryPath ==
    \A p \in Procs :
        (RdReturned(p) /\ call[p].line_range.end < call[p].line_range.start)
        => /\ call[p].result.error = "End line must be >= start line"
           /\ ~call[p].opened

(***************************************************************************)
(* C15 amended: read_line_range with end < start never opens the file and  *)
(* always fails, with the first error in the order of its checks: "File    *)
(* not found" for a missing path, "Not a file" for a path that is not a    *)
(* regular file, "Line numbers must be >= 1" when start < 1, and "End line *)
(* must be >= start line" otherwise.                                       *)
(***************************************************************************)
C15_InvalidRangeAfterPathChecks ==
    \A p \in Procs :
        (call[p].op \in ReadOps /\ call[p].line_range.end < call[p].line_range.start)
        => /\ ~call[p].opened
           /\ call[p].pc # "rd_read"
           /\ RdReturned(p) =>
                /\ call[p].result.content = <<>>
                /\ call[p].result.error =
                      IF ~Exists(call[p].pre) THEN "File not found"
                      ELSE IF ~IsFile(call[p].pre) THEN "Not a file"
                      ELSE IF call[p].line_range.start < 1
                           THEN "Line numbers must be >= 1"
                      ELSE "End line must be >= start line"

C15_Witness ==
    /\ call[1].op = "read_line_range"
    /\ call[1].pc = "done"
    /\ call[1].pre = File(FileData(2, "lf", TRUE))
    /\ call[1].line_range = LineRange(3, 1)
    /\ call[1].result.error = "End line must be >= start line"
    /\ ~call[1].opened

(***************************************************************************)
(* C16 as claimed: the line range of a successful result is the range      *)
(* satisfied: when the file has fewer than end lines, the reported end is  *)
(* the number of the last line read.                                       *)
(***************************************************************************)
C16_RangeClippedToEOF ==
    \A p \in Procs :
        (/\ RdReturned(p) /\ RdReadable(p)
         /\ call[p].result.error = "none"
         /\ call[p].line_range.start <= Len(PreLines(p))
         /\ Len(PreLines(p)) < call[p].line_range.end)
        => call[p].result.line_range
              = LineRange(call[p].line_range.start, Len(PreLines(p)))

(***************************************************************************)
(* C16 amended: the line range of every result, failed or not, is the      *)
(* range requested, as given; where the file has fewer than end lines the  *)
(* number of the last line reached is metadata.total_lines = min(end, L).  *)
(***************************************************************************)
C16_RangeEchoed ==
    \A p \in Procs :
        RdReturned(p)
        => /\ call[p].result.line_range = call[p].line_range
           /\ (RdReadable(p) /\ call[p].result.error = "none") =>
                 call[p].result.metadata.total_lines
                    = Min(call[p].line_range.end, Len(PreLines(p)))

C16_Witness ==
    /\ call[1].op = "read_line_range"
    /\ call[1].pc = "done"
    /\ ~env.faults
    /\ call[1].pre = File(FileData(2, "lf", TRUE))
    /\ call[1].line_range = LineRange(2, 4)
    /\ call[1].result.error = "none"
    /\ call[1].result.content = <<"2", LF>>
    /\ call[1].result.line_range = LineRange(2, 4)
    /\ call[1].result.metadata.total_lines = 2

(***************************************************************************)
(* C17: for line_number n >= 1 and context_lines k >= 0,                   *)
(* read_context_around_line(path, n, k) returns the content, the line      *)
(* range and the error of read_line_range(path, max(1, n - k), n + k), and *)
(* its metadata with target_line = n and context_lines = k added and       *)
(* nothing else changed; with k = 0 the content is line n of the file.     *)
(***************************************************************************)
C17_ContextIsRangeRead ==
    (/\ call[1].op = "read_context_around_line" /\ call[1].pc = "done"
     /\ call[2].op = "read_line_range" /\ call[2].pc = "done"
     /\ ~env.faults
     /\ IsFile(call[1].pre) => Decodable(call[1].pre.data, call[1].encoding)
     /\ call[1].line_number >= 1)
    => LET n == call[1].line_number
           k == call[1].context_lines
           ctx == call[1].result
           rng == call[2].result
       IN  /\ call[2].line_range = LineRange(Max(1, n - k), n + k)
           /\ ctx.content = rng.content
           /\ ctx.error = rng.error
           /\ ctx.line_range = rng.line_range
           /\ DOMAIN ctx.metadata
                = DOMAIN rng.metadata \cup {"target_line", "context_lines"}
           /\ ctx.metadata.target_line = n
           /\ ctx.metadata.context_lines = k
           /\ \A key \in DOMAIN rng.metadata : ctx.metadata[key] = rng.metadata[key]
           /\ (k = 0 /\ IsFile(call[1].pre)) =>
                 /\ ctx.error = "none"
                 /\ ctx.content = Flatten(SubSeq(PreLines(1), n, Min(n, Len(PreLines(1)))))

C17_Witness ==
    /\ call[1].op = "read_context_around_line" /\ call[1].pc = "done"
    /\ call[2].op = "read_line_range" /\ call[2].pc = "done"
    /\ ~env.faults
    /\ call[1].pre = File(FileData(4, "lf", TRUE))
    /\ call[1].line_number = 2
    /\ call[1].context_lines = 2
    /\ call[2].line_range = LineRange(1, 4)
    /\ call[1].result.content = FileData(4, "lf", TRUE)
    /\ call[1].result.metadata.target_line = 2
    /\ call[1].result.metadata.total_lines = 4

(***************************************************************************)
(* Chunk streamer (file/streamer.py)                                       *)
(*                                                                         *)
(* A stream is a generator: the items it has yielded so far are kept in    *)
(* the state of the call, each as [payload, metadata], the metadata with   *)
(* the keys of the source.  The generator is exhausted at pc = "done".     *)
(***************************************************************************)
ErrorChunk(error) ==
    [payload |-> <<>>,
     metadata |-> [error |-> error, chunk_number |-> 0, total_chunks |-> 0]]

LineChunk(lines, chunk_number, file_size, total_lines) ==
    [payload |-> Flatten(lines),
     metadata |-> [chunk_number |-> chunk_number, lines_in_chunk |-> Len(lines),
                   file_size |-> file_size, lines_read_so_far |-> total_lines]]

\* A chunk that is marked last only once more than the file size was read.
ByteChunk_StrictLast(chunk, chunk_number, estimated_chunks, file_size, bytes_read) ==
    [payload |-> chunk,
     metadata |-> [chunk_number |-> chunk_number,
                   estimated_total_chunks |-> estimated_chunks,
                   bytes_in_chunk |-> Len(chunk), file_size |-> file_size,
                   bytes_read_so_far |-> bytes_read,
                   is_last_chunk |-> bytes_read > file_size]]

ByteChunk(chunk, chunk_number, estimated_chunks, file_size, bytes_read) ==
    [payload |-> chunk,
     metadata |-> [chunk_number |-> chunk_number,
                   estimated_total_chunks |-> estimated_chunks,
                   bytes_in_chunk |-> Len(chunk), file_size |-> file_size,
                   bytes_read_so_far |-> bytes_read,
                   is_last_chunk |-> bytes_read >= file_size]]

IsErrorChunk(c) == "error" \in DOMAIN c.metadata

(***************************************************************************)
(* State of a stream                                                       *)
(*   op        "stream_file_by_lines" or "stream_file_by_bytes"            *)
(*   view      the content the open file shows to the next read: what was  *)
(*             buffered, or the file as it is now                          *)
(*   pos       the offset of the next read                                 *)
(*   total     total_lines or bytes_read                                   *)
(*   yielded   the items yielded so far                                    *)
(*   modified  the file was written by someone else since the call began   *)
(***************************************************************************)
StreamOps == {"stream_file_by_lines", "stream_file_by_bytes"}

StreamCall ==
    [pc |-> "st_exists", op |-> "stream_file_by_lines", chunk_size |-> 1,
     encoding |-> "utf-8", pre |-> Absent, file_size |-> 0, estimated_chunks |-> 0,
     view |-> <<>>, pos |-> 0, total |-> 0, chunk_number |-> 0,
     yielded |-> <<>>, modified |-> FALSE, ncalls |-> 0]

\* An error chunk after which the generator goes on.
YieldError_GoOn(p, error) ==
    [call EXCEPT ![p].yielded = Append(call[p].yielded, ErrorChunk(error)),
                 ![p].pc = IF call[p].pc = "st_read" THEN "st_read" ELSE "done"]

\* The generator yields the error chunk and ends.
YieldError(p, error) ==
    [call EXCEPT ![p].yielded = Append(call[p].yielded, ErrorChunk(error)),
                 ![p].pc = "done"]

CallStreamLines(p, chunk_size, enc) ==
    /\ call[p].pc = "idle"
    /\ call[p].ncalls < env.calls
    /\ call' = [call EXCEPT ![p] =
                 [StreamCall EXCEPT !.chunk_size = chunk_size, !.encoding = enc,
                                    !.pre = target,
                                    !.ncalls = call[p].ncalls + 1]]
    /\ UNCHANGED <<target, bak, tmp, env>>

CallStreamBytes(p, byte_chunk_size) ==
    /\ call[p].pc = "idle"
    /\ call[p].ncalls < env.calls
    /\ call' = [call EXCEPT ![p] =
                 [StreamCall EXCEPT !.op = "stream_file_by_bytes",
                                    !.chunk_size = byte_chunk_size,
                                    !.pre = target,
                                    !.ncalls = call[p].ncalls + 1]]
    /\ UNCHANGED <<target, bak, tmp, env>>

\* not path_obj.exists() or not path_obj.is_file()
StCheckPath(p) ==
    /\ call[p].pc = "st_exists"
    /\ call' = IF ~Exists(target) \/ ~IsFile(target)
               THEN YieldError(p, "File not found or not a regular file")
               ELSE Goto(p, "st_size")
    /\ UNCHANGED <<target, bak, tmp, env>>

\* file_size = os.path.getsize(file_path); in byte mode also
\* estimated_chunks = (file_size + byte_chunk_size - 1) // byte_chunk_size,
\* which raises ZeroDivisionError for a chunk size of 0.
StGetSize(p) ==
    /\ call[p].pc = "st_size"
    /\ \E fail \in IOFail :
         call' =
           IF fail \/ ~IsFile(target) THEN YieldError(p, "Error streaming file")
           ELSE IF call[p].op = "stream_file_by_bytes" /\ call[p].chunk_size = 0
           THEN YieldError(p, "Error streaming file")
           ELSE [call EXCEPT
                   ![p].pc = "st_open",
                   ![p].file_size = Len(target.data),
                   ![p].estimated_chunks =
                       IF call[p].op = "stream_file_by_bytes"
                       THEN (Len(target.data) + call[p].chunk_size - 1)
                               \div call[p].chunk_size
                       ELSE 0]
    /\ UNCHANGED <<target, bak, tmp, env>>

\* open(file_path, 'r', encoding=...) or open(file_path, 'rb')
StOpen(p) ==
    /\ call[p].pc = "st_open"
    /\ \E fail \in IOFail :
         call' =
           IF fail \/ ~IsFile(target)
              \/ (call[p].op = "stream_file_by_lines"
                  /\ ~SupportedEncoding(call[p].encoding))
           THEN YieldError(p, "Error streaming file")
           ELSE [call EXCEPT ![p].pc = "st_read", ![p].view = target.data]
    /\ UNCHANGED <<target, bak, tmp, env>>

\* The content the next read sees: the buffered one, or the file as it is.
Views(p) == {call[p].view} \cup (IF IsFile(target) THEN {target.data} ELSE {})

\* A chunk loop that yields what it has read even when that is nothing.
StReadLines_YieldEmpty(p) ==
    /\ call[p].pc = "st_read"
    /\ call[p].op = "stream_file_by_lines"
    /\ \E fail \in IOFail, d \in Views(p) :
         IF fail THEN call' = YieldError(p, "Error streaming file")
         ELSE LET st == ReadlineLoop(d, [pos |-> call[p].pos, content |-> <<>>,
                                         line_count |-> call[p].total],
                                     call[p].chunk_size, TRUE)
              IN  \E bad \in DecodeFails(d, st.pos, call[p].encoding) :
                    call' =
                      IF bad THEN YieldError(p, EncodingError(call[p].encoding))
                      ELSE [call EXCEPT
                              ![p].view = d,
                              ![p].pos = st.pos,
                              ![p].total = st.line_count,
                              ![p].chunk_number = call[p].chunk_number + 1,
                              ![p].pc = IF st.content = <<>> THEN "done" ELSE "st_read",
                              ![p].yielded =
                                  Append(call[p].yielded,
                                         LineChunk(st.content, call[p].chunk_number + 1,
                                                   call[p].file_size, st.line_count))]
    /\ UNCHANGED <<target, bak, tmp, env>>

\* One turn of the loop of stream_file_by_lines: up to chunk_size calls of
\* readline; the lines are yielded as a chunk, and the loop ends when there
\* are none.
StReadLines(p) ==
    /\ call[p].pc = "st_read"
    /\ call[p].op = "stream_file_by_lines"
    /\ \E fail \in IOFail, d \in Views(p) :
         IF fail THEN call' = YieldError(p, "Error streaming file")
         ELSE LET st == ReadlineLoop(d, [pos |-> call[p].pos, content |-> <<>>,
                                         line_count |-> call[p].total],
                                     call[p].chunk_size, TRUE)
              IN  \E bad \in DecodeFails(d, st.pos, call[p].encoding) :
                    call' =
                      IF bad THEN YieldError(p, EncodingError(call[p].encoding))
                      ELSE IF st.content = <<>> THEN Goto(p, "done")
                      ELSE [call EXCEPT
                              ![p].view = d,
                              ![p].pos = st.pos,
                              ![p].total = st.line_count,
                              ![p].chunk_number = call[p].chunk_number + 1,
                              ![p].yielded =
                                  Append(call[p].yielded,
                                         LineChunk(st.content, call[p].chunk_number + 1,
                                                   call[p].file_size, st.line_count))]
    /\ UNCHANGED <<target, bak, tmp, env>>

\* One turn of the loop of stream_file_by_bytes: chunk = f.read(size); the
\* loop ends at an empty chunk.
StReadBytes(p) ==
    /\ call[p].pc = "st_read"
    /\ call[p].op = "stream_file_by_bytes"
    /\ \E fail \in IOFail, d \in Views(p) :
         call' =
           IF fail THEN YieldError(p, "Error streaming file")
           ELSE LET chunk == Slice(d, call[p].pos, call[p].pos + call[p].chunk_size)
                    bytes_read == call[p].total + Len(chunk)
                IN  IF chunk = <<>> THEN Goto(p, "done")
                    ELSE [call EXCEPT
                            ![p].view = d,
                            ![p].pos = call[p].pos + Len(chunk),
                            ![p].total = bytes_read,
                            ![p].chunk_number = call[p].chunk_number + 1,
                            ![p].yielded =
                                Append(call[p].yielded,
                                       ByteChunk(chunk, call[p].chunk_number + 1,
                                                 call[p].estimated_chunks,
                                                 call[p].file_size, bytes_read))]
    /\ UNCHANGED <<target, bak, tmp, env>>

\* Someone else writes the file while caller p streams it: bytes are
\* appended, or the file is emptied.  Once per stream.
Modify(p) ==
    /\ call[p].op \in StreamOps
    /\ call[p].pc \in {"st_size", "st_open", "st_read"}
    /\ ~call[p].modified
    /\ env.writers
    /\ IsFile(target)
    /\ \E f \in {File(target.data \o <<"z", LF>>), File(<<>>)} \ {target} :
          target' = f
    /\ call' = [call EXCEPT ![p].modified = TRUE]
    /\ UNCHANGED <<bak, tmp, env>>

(***************************************************************************)
(* SpecStream: one caller streaming, by lines or by bytes, a path that is  *)
(* missing, a directory or a file; I/O operations may fail where the       *)
(* environment injects failures, and another writer may change the file    *)
(* during the stream.                                                      *)
(***************************************************************************)
MaxChunk == 3

StreamFiles ==
    {FileData(n, style, closed) :
        n \in 0..MaxLines, style \in {"lf", "crlf"}, closed \in BOOLEAN}
    \cup {<<"1", CR, "2", LF>>, <<"1", LF, BAD, LF>>, <<BAD>>, <<LF, LF>>}

InitStream ==
    /\ target \in {Absent, Dir} \cup {File(d) : d \in StreamFiles}
    /\ bak = Absent
    /\ tmp = [p \in Procs |-> Absent]
    /\ call = [p \in Procs |-> IdleCall]
    /\ env \in [faults : BOOLEAN, writers : BOOLEAN, same_device : {TRUE}, calls : {1}]

StartStreamLines(p) ==
    /\ call[p].pc = "idle"
    /\ call[p].ncalls < env.calls
    /\ \E c \in 0..MaxChunk, enc \in Encodings : CallStreamLines(p, c, enc)

StartStreamBytes(p) ==
    /\ call[p].pc = "idle"
    /\ call[p].ncalls < env.calls
    /\ \E b \in 0..MaxChunk : CallStreamBytes(p, b)

NextStream ==
    \/ StartStreamLines(1)
    \/ StartStreamBytes(1)
    \/ StCheckPath(1)
    \/ StGetSize(1)
    \/ StOpen(1)
    \/ StReadLines(1)
    \/ StReadBytes(1)
    \/ Modify(1)

SpecStream == InitStream /\ [][NextStream]_vars

(***************************************************************************)
(* Vocabulary of the properties of the streamer                            *)
(***************************************************************************)
\* The stream of caller p has ended; nothing failed on the way that the
\* environment injected, and nobody else wrote the file.
Streamed(p, op) ==
    /\ call[p].op = op
    /\ call[p].pc = "done"
    /\ ~env.faults
    /\ ~call[p].modified

CeilDiv(a, b) == (a + b - 1) \div b

RECURSIVE SumOf(_, _, _)
SumOf(ys, key, k) ==
    IF k = 0 THEN 0 ELSE ys[k].metadata[key] + SumOf(ys, key, k - 1)

RECURSIVE Payloads(_)
Payloads(ys) == IF ys = <<>> THEN <<>> ELSE Head(ys).payload \o Payloads(Tail(ys))

IsPrefix(s, t) == Len(s) <= Len(t) /\ SubSeq(t, 1, Len(s)) = s

(***************************************************************************)
(* C18: streaming in line mode, with chunk size c >= 1, a file of L lines  *)
(* that can be read yields ceil(L / c) chunks and no empty one: the k-th   *)
(* has chunk_number k, every chunk but the last holds c lines, the last    *)
(* L - c * (ceil(L / c) - 1), lines_read_so_far is the running sum of      *)
(* lines_in_chunk and ends at L, and the payloads, in order, are the text  *)
(* of the file.                                                            *)
(***************************************************************************)
C18_LineChunks ==
    \A p \in Procs :
        (/\ Streamed(p, "stream_file_by_lines") /\ PreReadable(p)
         /\ call[p].chunk_size >= 1)
        => LET c == call[p].chunk_size
               lines == PreLines(p)
               L == Len(lines)
               n == CeilDiv(L, c)
               ys == call[p].yielded
           IN  /\ Len(ys) = n
               /\ \A k \in 1..Len(ys) :
                     /\ ~IsErrorChunk(ys[k])
                     /\ ys[k].metadata.chunk_number = k
                     /\ ys[k].metadata.lines_in_chunk
                           = IF k < n THEN c ELSE L - c * (n - 1)
                     /\ ys[k].metadata.lines_in_chunk >= 1
                     /\ ys[k].metadata.lines_read_so_far
                           = SumOf(ys, "lines_in_chunk", k)
                     /\ ys[k].payload
                           = Flatten(SubSeq(lines, c * (k - 1) + 1, Min(c * k, L)))
               /\ SumOf(ys, "lines_in_chunk", Len(ys)) = L
               /\ Payloads(ys) = PreText(p)

C18_Witness ==
    /\ Streamed(1, "stream_file_by_lines")
    /\ call[1].pre = File(FileData(3, "lf", TRUE))
    /\ call[1].chunk_size = 2
    /\ Len(call[1].yielded) = 2
    /\ call[1].yielded[1].payload = <<"1", LF, "2", LF>>
    /\ call[1].yielded[2].payload = <<"3", LF>>
    /\ call[1].yielded[2].metadata.lines_in_chunk = 1
    /\ call[1].yielded[2].metadata.lines_read_so_far = 3

(***************************************************************************)
(* C19: in both modes an error chunk has an empty payload and chunk_number *)
(* 0, is the last item of the stream and ends it; a path that is missing   *)
(* or not a regular file gives that chunk and nothing else; a stream that  *)
(* cannot but fail (a file that does not decode, a byte chunk size of 0)   *)
(* ends with it; and the items yielded before stay as they were: every     *)
(* step leaves the items yielded so far in place and adds at most one.     *)
(***************************************************************************)
ErrorChunkIsLast(p) ==
    LET ys == call[p].yielded
    IN  /\ \A k \in 1..Len(ys) :
              IsErrorChunk(ys[k])
              => /\ k = Len(ys)
                 /\ call[p].pc = "done"
                 /\ ys[k].payload = <<>>
                 /\ ys[k].metadata.chunk_number = 0
        /\ (call[p].pc = "done" /\ ~IsFile(call[p].pre))
              => Len(ys) = 1 /\ IsErrorChunk(ys[1])
        /\ (/\ call[p].pc = "done" /\ IsFile(call[p].pre) /\ ~call[p].modified
            /\ \/ call[p].op = "stream_file_by_lines" /\ call[p].chunk_size >= 1
                  /\ ~Decodable(call[p].pre.data, call[p].encoding)
               \/ call[p].op = "stream_file_by_bytes" /\ call[p].chunk_size = 0)
              => Len(ys) >= 1 /\ IsErrorChunk(ys[Len(ys)])

YieldedKept(p) ==
    (call[p].op \in StreamOps /\ call'[p].op \in StreamOps)
    => /\ IsPrefix(call[p].yielded, call'[p].yielded)
       /\ Len(call'[p].yielded) <= Len(call[p].yielded) + 1
       /\ call[p].pc = "done" => call'[p].yielded = call[p].yielded

C19_ErrorChunkEndsStream ==
    /\ [](\A p \in Procs : call[p].op \in StreamOps => ErrorChunkIsLast(p))
    /\ [][\A p \in Procs : YieldedKept(p)]_vars

C19_Witness ==
    /\ call[1].op = "stream_file_by_lines"
    /\ call[1].pc = "done"
    /\ env.faults
    /\ call[1].pre = File(FileData(3, "lf", TRUE))
    /\ call[1].chunk_size = 1
    /\ Len(call[1].yielded) = 3
    /\ ~IsErrorChunk(call[1].yielded[2])
    /\ call[1].yielded[2].payload = <<"2", LF>>
    /\ IsErrorChunk(call[1].yielded[3])

(***************************************************************************)
(* C20: streaming in byte mode, with chunk size b >= 1, a file of S > 0    *)
(* bytes that nobody writes meanwhile yields ceil(S / b) chunks whose      *)
(* bytes_in_chunk sum to S; bytes_read_so_far is the running sum, and      *)
(* is_last_chunk is true on the last chunk and false on every chunk before *)
(* it.                                                                     *)
(***************************************************************************)
C20_ByteChunks ==
    \A p \in Procs :
        (/\ Streamed(p, "stream_file_by_bytes") /\ IsFile(call[p].pre)
         /\ Len(call[p].pre.data) > 0
         /\ call[p].chunk_size >= 1)
        => LET b == call[p].chunk_size
               S == Len(call[p].pre.data)
               n == CeilDiv(S, b)
               ys == call[p].yielded
           IN  /\ Len(ys) = n
               /\ \A k \in 1..Len(ys) :
                     /\ ~IsErrorChunk(ys[k])
                     /\ ys[k].metadata.bytes_in_chunk = Len(ys[k].payload)
                     /\ ys[k].metadata.bytes_read_so_far
                           = SumOf(ys, "bytes_in_chunk", k)
                     /\ ys[k].metadata.is_last_chunk = (k = n)
               /\ SumOf(ys, "bytes_in_chunk", Len(ys)) = S
               /\ Payloads(ys) = call[p].pre.data

C20_Witness ==
    /\ Streamed(1, "stream_file_by_bytes")
    /\ call[1].pre = File(FileData(2, "crlf", TRUE))
    /\ call[1].chunk_size = 3
    /\ Len(call[1].yielded) = 2
    /\ call[1].yielded[1].payload = <<"1", CR, LF>>
    /\ ~call[1].yielded[1].metadata.is_last_chunk
    /\ call[1].yielded[2].metadata.is_last_chunk
    /\ call[1].yielded[2].metadata.bytes_read_so_far = 6

(***************************************************************************)
(* C29: every temporary file created by apply_line_edits or replace_string *)
(* has been deleted or renamed onto the target by the time the call        *)
(* returns, on every return path: when a call has returned, no temporary   *)
(* file of that call exists.                                               *)
(***************************************************************************)
C29_NoTempFileLeftBehind ==
    \A p \in Procs :
        (Returned(p, "edits") \/ Returned(p, "replace")) => tmp[p] = Absent

(***************************************************************************)
(* C25: a batch whose edits overlap, or have the same range, is not        *)
(* rejected for that.  Its edits are applied one after another, the edit   *)
(* with the larger line_start first and edits of equal line_start in the   *)
(* order of the batch; each edit replaces, in the buffer as the edits      *)
(* before it left it, the positions line_start..min(line_end, total),      *)
(* where total is the line count of the original file.                     *)
(***************************************************************************)
\* Edit i of the batch is applied before edit j.
Before(es, i, j) ==
    \/ es[i].line_start > es[j].line_start
    \/ es[i].line_start = es[j].line_start /\ i < j

\* The batch in the order of application.
InOrder(es) ==
    [k \in 1..Len(es) |->
        es[CHOOSE i \in 1..Len(es) :
              Cardinality({j \in 1..Len(es) : Before(es, j, i)}) = k - 1]]

\* One edit laid over a buffer of lines: positions are counted in the
\* buffer, the end of the range is cut at the original line count, and a
\* range that reaches past the buffer ends with it.
Overlay(buf, e, total) ==
    LET lo == Min(e.line_start - 1, Len(buf))
        hi == Max(lo, Min(SpanEnd(e, total), Len(buf)))
    IN  SubSeq(buf, 1, lo) \o NewLines(e.new_content)
        \o SubSeq(buf, hi + 1, Len(buf))

RECURSIVE OverlayAll(_, _, _)
OverlayAll(buf, es, total) ==
    IF es = <<>> THEN buf
    ELSE OverlayAll(Overlay(buf, Head(es), total), Tail(es), total)

C25_OverlappingEditsApplied ==
    \A p \in Procs :
        (Returned(p, "edits") /\ PreReadable(p)
         /\ ValidBatch(call[p].edits, Len(PreLines(p)))
         /\ ~Disjoint(call[p].edits, Len(PreLines(p))))
        => /\ call[p].result.success
           /\ Holds(p, Flatten(OverlayAll(PreLines(p), InOrder(call[p].edits),
                                          Len(PreLines(p)))))

\* Two edits of the same line: the first of the batch puts a line in its
\* place, the second then deletes what stands at that position.
C25_Witness ==
    /\ Returned(1, "edits")
    /\ call[1].edits = <<LineEdit(2, 2, <<"x", LF>>), LineEdit(2, 2, <<>>)>>
    /\ call[1].pre = File(FileData(4, "lf", TRUE))
    /\ call[1].result.success
    /\ target.data = <<"1", LF, "3", LF, "4", LF>>

(***************************************************************************)
(* C27: when a mutation with backups enabled returns as a no-op, no file   *)
(* exists at <path>.bak, whatever was there before the call.  After a      *)
(* changing mutation followed by a no-op mutation, both with backups, the  *)
(* backup of the first call has been overwritten and deleted: the target   *)
(* holds the changed content and no file holds the content from before.    *)
(***************************************************************************)
C27_NoOpRemovesEarlierBackup ==
    \A p \in Procs :
        (/\ Returned(p, "edits") \/ Returned(p, "replace")
         /\ call[p].create_backup
         /\ call[p].result = Unchanged)
        => /\ ~Exists(bak)
           /\ tmp[p] = Absent
           /\ target = call[p].pre

\* The second call of the caller: it found the backup of the first call,
\* which held the two-line file, and a target that had changed since.
C27_Witness ==
    /\ Returned(1, "replace")
    /\ call[1].ncalls = 2
    /\ call[1].create_backup
    /\ call[1].result = Unchanged
    /\ call[1].prebak = File(FileData(2, "lf", TRUE))
    /\ call[1].pre = File(<<"x", LF, "2", LF>>)
    /\ target = call[1].pre
    /\ bak = Absent

(***************************************************************************)
(* SpecInterleaved: two callers, each making one call of either operation  *)
(* on the same path, with or without backups; their steps interleave in    *)
(* every order.  The engine takes no lock, and both calls use the backup   *)
(* path <path>.bak.  No injected failures; the temporary directory is on   *)
(* the file system of the target.                                          *)
(***************************************************************************)
SharedFiles == {FileData(1, "lf", TRUE), FileData(2, "lf", TRUE)}

SharedBatches ==
    {<<LineEdit(1, 1, <<"x", LF>>)>>, <<LineEdit(1, 1, <<"1", LF>>)>>,
     <<LineEdit(2, 2, <<"y", LF>>)>>}

InitInterleaved ==
    /\ target \in {File(d) : d \in SharedFiles}
    /\ bak = Absent
    /\ tmp = [p \in Procs |-> Absent]
    /\ call = [p \in Procs |-> IdleCall]
    /\ env = [faults |-> FALSE, same_device |-> TRUE, calls |-> 1]

StartShared(p) ==
    /\ call[p].pc = "idle"
    /\ call[p].ncalls < env.calls
    /\ \/ \E es \in SharedBatches, bk \in BOOLEAN : CallEdits(p, es, bk, "utf-8")
       \/ \E old \in {<<"1">>, <<"2">>, <<"z">>}, bk \in BOOLEAN :
             CallReplace(p, old, <<"w">>, 0, bk, "utf-8")

NextInterleaved ==
    \/ \E p \in Procs : StartShared(p)
    \/ \E p \in Procs : CheckPath(p)
    \/ \E p \in Procs : CreateBackup(p)
    \/ \E p \in Procs : Validate(p)
    \/ \E p \in Procs : ReadAndApply(p)
    \/ \E p \in Procs : ReadAndReplace(p)
    \/ \E p \in Procs : WriteTemp(p)
    \/ \E p \in Procs : Compare(p)
    \/ \E p \in Procs : Cleanup(p)
    \/ \E p \in Procs : Move(p)

SpecInterleaved == InitInterleaved /\ [][NextInterleaved]_vars

\* The file as the call read it is no longer what the target holds.
Stale(p) ==
    /\ call[p].pc = "move"
    /\ ~(IsFile(target) /\ ReadText(target.data) = call[p].content)

(***************************************************************************)
(* C26: the read-modify-write cycle is unguarded.  When the target has     *)
(* been changed by another writer after a call read it, the call's move    *)
(* still goes through: the call returns success without an error, the      *)
(* target becomes what the call computed from the content it read, so the  *)
(* other writer's change is gone, and the backup holds the content from    *)
(* before the other writer's change, which is the content the call read.   *)
(***************************************************************************)
C26_LostUpdate ==
    [][\A p \in Procs :
          (Stale(p) /\ call'[p].pc # "move")
          => /\ call'[p].pc = "done"
             /\ call'[p].result.success
             /\ call'[p].result.error = "none"
             /\ target' = File(call[p].out)
             /\ call[p].backup_path
                  => /\ call'[p].result.backup_path
                     /\ IsFile(bak') /\ ReadText(bak'.data) = call[p].content]_vars

\* Both calls read the two-line file; caller 2 replaced its line 2 first,
\* then caller 1 moved its own result over it: the change of caller 2 is
\* lost, both calls report success, and the backup is the file both read.
C26_Witness ==
    /\ Returned(1, "replace") /\ Returned(2, "edits")
    /\ call[1].create_backup
    /\ call[1].result.success /\ call[2].result.success
    /\ call[1].result.error = "none"
    /\ call[1].content = <<"1", LF, "2", LF>>
    /\ call[2].content = <<"1", LF, "2", LF>>
    /\ call[2].out = <<"1", LF, "y", LF>>
    /\ call[1].out = <<"w", LF, "2", LF>>
    /\ target = File(<<"w", LF, "2", LF>>)
    /\ bak = File(<<"1", LF, "2", LF>>)

(***************************************************************************)
(* C28: every call uses the one backup path <path>.bak, so with two calls  *)
(* with backups interleaved on a path, a call can return success with      *)
(* backup_path set while the file at that path is absent, or holds content *)
(* other than what the call read.  Stated as what is always so: the backup *)
(* of a successful call is missing only where the other call, with backups *)
(* enabled, returned as a no-op and removed it; it differs from what the   *)
(* call read only where the other call has been at work on the path; and a *)
(* call that had the path to itself finds its backup holding what it read. *)
(***************************************************************************)
BackupHoldsRead(p) == IsFile(bak) /\ ReadText(bak.data) = call[p].content

C28_SharedBackupPath ==
    \A p \in Procs :
        (/\ Returned(p, "edits") \/ Returned(p, "replace")
         /\ call[p].result.success
         /\ call[p].result.backup_path)
        => \A q \in Procs \ {p} :
              /\ ~Exists(bak) => /\ call[q].backup_path
                                 /\ call[q].result = Unchanged
              /\ call[q].op = "none" => BackupHoldsRead(p)

\* Caller 1 changed the file and reports its backup; caller 2, a no-op with
\* backups enabled, has removed the file at the shared path.
C28_Witness ==
    /\ Returned(1, "replace") /\ Returned(2, "edits")
    /\ call[1].result.success
    /\ call[1].result.backup_path
    /\ call[2].create_backup
    /\ call[2].result = Unchanged
    /\ call[1].content = <<"1", LF, "2", LF>>
    /\ target = File(<<"1", LF, "w", LF>>)
    /\ bak = Absent

\* Caller 1 reports a backup that holds what caller 2 found, not what
\* caller 1 read.
C28_OverwrittenReached ==
    /\ Returned(1, "replace") /\ Returned(2, "edits")
    /\ call[1].result.success /\ call[1].result.backup_path
    /\ call[2].result.success /\ call[2].result.backup_path
    /\ IsFile(bak)
    /\ ReadText(bak.data) # call[1].content

(***************************************************************************)
(* Entry points of replace_string                                          *)
(*                                                                         *)
(* POST /write/replace (api/file.py): the request model refuses an empty   *)
(* old_string, the handler refuses a path that is missing or not a file,   *)
(* and only then is FileWriter(create_backup).replace_string called.  The  *)
(* MCP tool write_file (server.py) calls FileWriter().replace_string(path, *)
(* "", content) with the defaults of FileWriter: backups on, utf-8.  A     *)
(* request refused before the engine leaves a call with op "rejected".     *)
(***************************************************************************)
Reject(p, err) ==
    /\ call' = [call EXCEPT ![p] =
                 [IdleCall EXCEPT !.pc = "done", !.op = "rejected",
                                  !.result = Failure(err),
                                  !.ncalls = call[p].ncalls + 1]]
    /\ UNCHANGED <<target, bak, tmp, env>>

HttpReplaceString(p, old_string, new_string, max_replacements, create_backup) ==
    /\ call[p].pc = "idle"
    /\ call[p].ncalls < env.calls
    /\ IF old_string = <<>>
       THEN Reject(p, "String to replace must not be empty")
       ELSE IF ~Exists(target) THEN Reject(p, "File not found")
       ELSE IF ~IsFile(target) THEN Reject(p, "Path is not a file")
       ELSE CallReplace(p, old_string, new_string, max_replacements,
                        create_backup, "utf-8")

ToolWriteFile(p, content) ==
    CallReplace(p, <<>>, content, 0, TRUE, "utf-8")

(***************************************************************************)
(* SpecEntry: one caller reaching replace_string through its entry points, *)
(* on a path that holds a text, a directory or nothing; no injected        *)
(* failures.                                                               *)
(***************************************************************************)
InitEntry ==
    /\ target \in {Absent, Dir} \cup {File(d) : d \in ReplaceFiles}
    /\ bak = Absent
    /\ tmp = [p \in Procs |-> Absent]
    /\ call = [p \in Procs |-> IdleCall]
    /\ env = [faults |-> FALSE, same_device |-> TRUE, calls |-> 1]

StartHttpReplace(p) ==
    /\ call[p].pc = "idle"
    /\ call[p].ncalls < env.calls
    /\ \E old \in {<<>>, <<"a">>, <<"z">>}, new \in {<<>>, <<"b">>},
          max \in 0..1, bk \in BOOLEAN :
          HttpReplaceString(p, old, new, max, bk)

StartWriteFile(p) ==
    /\ call[p].pc = "idle"
    /\ call[p].ncalls < env.calls
    /\ \E content \in {<<>>, <<"b">>, <<"b", LF>>} : ToolWriteFile(p, content)

NextEntry ==
    \/ StartHttpReplace(1)
    \/ StartWriteFile(1)
    \/ CheckPath(1)
    \/ CreateBackup(1)
    \/ ReadAndReplace(1)
    \/ WriteTemp(1)
    \/ Cleanup(1)
    \/ Move(1)
    \/ Finish(1)

SpecEntry == InitEntry /\ [][NextEntry]_vars

(***************************************************************************)
(* C24: replace_string is never reached with an empty old_string: every    *)
(* entry point that forwards to it either refuses an empty old_string      *)
(* before the engine is called or supplies one that is not empty.          *)
(***************************************************************************)
C24_OldStringNeverEmpty ==
    \A p \in Procs : call[p].op = "replace" => call[p].old_string # <<>>

\* write_file on a file holding "ab": the content is put before every
\* character and at the end, and the call reports success.
C24_WriteFileInterleaves ==
    /\ Returned(1, "replace")
    /\ call[1].old_string = <<>>
    /\ call[1].new_string = <<"b", LF>>
    /\ call[1].pre = File(<<"a", "b">>)
    /\ call[1].result.success
    /\ target = File(<<"b", LF, "a", "b", LF, "b", "b", LF>>)

(***************************************************************************)
(* file_reader.py: read_file and detect_encoding                           *)
(*                                                                         *)
(* Both open the file with codecs.open(path, 'r', encoding=e): the bytes   *)
(* are read in binary mode and decoded by the stream reader of the codec.  *)
(* BAD is a byte above 0x7F that UTF-8, ASCII and Windows-1252 do not      *)
(* decode; every other byte of the model is ASCII.  No file of the model   *)
(* starts with a byte order mark, and the stream reader of UTF-16 raises   *)
(* UnicodeError on the first two bytes of such a file.                     *)
(***************************************************************************)
\* Codecs among which Latin-1 refuses the bytes that UTF-8 refuses.
ProbeOutcome_Latin1Strict(d, e) ==
    IF ~SupportedEncoding(e) THEN "LookupError"
    ELSE IF e = "utf-16"
         THEN (IF Len(d) < 2 THEN "ok" ELSE "UnicodeError")
    ELSE IF \E i \in 1..Len(d) : d[i] = BAD THEN "UnicodeDecodeError"
    ELSE "ok"

\* The outcome of codecs.open(path, 'r', encoding=e).read() on the bytes d.
ProbeOutcome(d, e) ==
    IF ~SupportedEncoding(e) THEN "LookupError"
    ELSE IF e \in {"latin-1", "iso-8859-1"} THEN "ok"
    ELSE IF e = "utf-16"
         THEN (IF Len(d) < 2 THEN "ok" ELSE "UnicodeError")
    ELSE IF \E i \in 1..Len(d) : d[i] = BAD THEN "UnicodeDecodeError"
    ELSE "ok"

\* The text the stream reader hands out: the bytes, one character each;
\* of a UTF-16 file shorter than a code unit, nothing.
Decoded(d, e) == IF e = "utf-16" THEN <<>> ELSE d

\* The exception open() raises on a path that is not a readable file.
OpenError(f) ==
    IF ~Exists(f) THEN "FileNotFoundError"
    ELSE IF ~IsFile(f) THEN "IsADirectoryError"
    ELSE "OSError"

\* A candidate list that starts with Latin-1.
encodings_to_try_Latin1First ==
    <<"latin-1", "utf-8", "utf-16", "ascii", "iso-8859-1", "windows-1252">>

encodings_to_try ==
    <<"utf-8", "latin-1", "utf-16", "ascii", "iso-8859-1", "windows-1252">>

(***************************************************************************)
(* State of a call of file_reader.py                                       *)
(*   op          "read_file" or "detect_encoding"                          *)
(*   start_line, end_line   <<>> for None, <<n>> for the number n          *)
(*   i           the position of the candidate detect_encoding probes next *)
(*   exception   the exception that left the function, at pc = "raised"    *)
(*   lines       the list read_file returned                               *)
(*   detected    the encoding detect_encoding returned                     *)
(***************************************************************************)
FileReaderOps == {"read_file", "detect_encoding"}

FileReaderCall ==
    [pc |-> "fr_lookup", op |-> "read_file", encoding |-> "utf-8",
     start_line |-> <<>>, end_line |-> <<>>, default_encoding |-> "utf-8",
     i |-> 1, pre |-> Absent, exception |-> "none", lines |-> <<>>,
     detected |-> "none", ncalls |-> 0]

Raise(p, exception) ==
    [call EXCEPT ![p].pc = "raised", ![p].exception = exception]

CallReadFile(p, encoding, start_line, end_line) ==
    /\ call[p].pc = "idle"
    /\ call[p].ncalls < env.calls
    /\ call' = [call EXCEPT ![p] =
                 [FileReaderCall EXCEPT !.encoding = encoding,
                                        !.start_line = start_line,
                                        !.end_line = end_line,
                                        !.pre = target,
                                        !.ncalls = call[p].ncalls + 1]]
    /\ UNCHANGED <<target, bak, tmp, env>>

CallDetectEncoding(p, default_encoding) ==
    /\ call[p].pc = "idle"
    /\ call[p].ncalls < env.calls
    /\ call' = [call EXCEPT ![p] =
                 [FileReaderCall EXCEPT !.pc = "fr_probe", !.op = "detect_encoding",
                                        !.default_encoding = default_encoding,
                                        !.pre = target,
                                        !.ncalls = call[p].ncalls + 1]]
    /\ UNCHANGED <<target, bak, tmp, env>>

\* codecs.lookup(encoding); LookupError is raised again with a message.
FrLookup(p) ==
    /\ call[p].pc = "fr_lookup"
    /\ call' = IF ~SupportedEncoding(call[p].encoding) THEN Raise(p, "LookupError")
               ELSE Goto(p, "fr_read")
    /\ UNCHANGED <<target, bak, tmp, env>>

\* codecs.open, readlines(), the two tests of the range and the slice.
\* Nothing is caught.
FrReadLines(p) ==
    /\ call[p].pc = "fr_read"
    /\ \E fail \in IOFail :
         call' =
           IF fail \/ ~IsFile(target) THEN Raise(p, OpenError(target))
           ELSE LET outcome == ProbeOutcome(target.data, call[p].encoding)
                    all_lines == SplitLines(Decoded(target.data, call[p].encoding),
                                            <<>>, TRUE)
                    start == IF call[p].start_line # <<>>
                             THEN call[p].start_line[1] - 1 ELSE 0
                    end == IF call[p].end_line # <<>>
                           THEN call[p].end_line[1] ELSE Len(all_lines)
                IN  IF outcome # "ok" THEN Raise(p, outcome)
                    ELSE IF call[p].start_line = <<>> /\ call[p].end_line = <<>>
                    THEN [call EXCEPT ![p].pc = "done", ![p].lines = all_lines]
                    ELSE IF call[p].start_line # <<>> /\ call[p].start_line[1] < 1
                    THEN Raise(p, "ValueError")
                    ELSE IF call[p].end_line # <<>>
                            /\ call[p].end_line[1] > Len(all_lines)
                    THEN Raise(p, "ValueError")
                    ELSE [call EXCEPT ![p].pc = "done",
                                      ![p].lines = Slice(all_lines, start, end)]
    /\ UNCHANGED <<target, bak, tmp, env>>

\* A probe that catches nothing: the first candidate that cannot decode the
\* file ends the detection with its exception.
FrProbe_NoCatch(p) ==
    /\ call[p].pc = "fr_probe"
    /\ \E fail \in IOFail :
         call' =
           IF fail \/ ~IsFile(target) THEN Raise(p, OpenError(target))
           ELSE LET outcome == ProbeOutcome(target.data, encodings_to_try[call[p].i])
                IN  IF outcome = "ok"
                    THEN [call EXCEPT ![p].pc = "done",
                                      ![p].detected = encodings_to_try[call[p].i]]
                    ELSE Raise(p, outcome)
    /\ UNCHANGED <<target, bak, tmp, env>>

\* One turn of the loop of detect_encoding: the candidate is returned when
\* the whole file decodes; UnicodeDecodeError and LookupError lead to the
\* next candidate, and past the last one to the default; any other
\* exception leaves the function.
FrProbe(p) ==
    /\ call[p].pc = "fr_probe"
    /\ \E fail \in IOFail :
         call' =
           IF fail \/ ~IsFile(target) THEN Raise(p, OpenError(target))
           ELSE LET outcome == ProbeOutcome(target.data, encodings_to_try[call[p].i])
                IN  IF outcome = "ok"
                    THEN [call EXCEPT ![p].pc = "done",
                                      ![p].detected = encodings_to_try[call[p].i]]
                    ELSE IF outcome \notin {"UnicodeDecodeError", "LookupError"}
                    THEN Raise(p, outcome)
                    ELSE IF call[p].i < Len(encodings_to_try)
                    THEN [call EXCEPT ![p].i = call[p].i + 1]
                    ELSE [call EXCEPT ![p].pc = "done",
                                      ![p].detected = call[p].default_encoding]
    /\ UNCHANGED <<target, bak, tmp, env>>

(***************************************************************************)
(* SpecEngine: one caller making one call of any operation of the engine   *)
(* (writer, range reader, streamer, file_reader.py) with an explicit       *)
(* encoding, a name no codec has, or none, on a path that is missing, a    *)
(* directory or a file; I/O operations may fail where the environment      *)
(* injects failures.                                                       *)
(***************************************************************************)
EngineFiles ==
    {<<>>, FileData(2, "lf", TRUE), <<"1", CR, LF>>, <<BAD>>, <<"1", LF, BAD, LF>>}

EngineEncodings == {"None", "utf-8", "latin-1", "klingon"}

InitEngine ==
    /\ target \in {Absent, Dir} \cup {File(d) : d \in EngineFiles}
    /\ bak = Absent
    /\ tmp = [p \in Procs |-> Absent]
    /\ call = [p \in Procs |-> IdleCall]
    /\ env \in [faults : BOOLEAN, writers : {FALSE}, same_device : {TRUE}, calls : {1}]

StartEngineEdits(p) ==
    /\ call[p].pc = "idle"
    /\ call[p].ncalls < env.calls
    /\ \E es \in IOBatches, bk \in BOOLEAN, enc \in EngineEncodings :
          CallEdits(p, es, bk, FileEncoding(enc, "utf-8"))

StartEngineReplace(p) ==
    /\ call[p].pc = "idle"
    /\ call[p].ncalls < env.calls
    /\ \E old \in {<<"1">>, <<"z">>}, bk \in BOOLEAN, enc \in EngineEncodings :
          CallReplace(p, old, <<"x">>, 0, bk, FileEncoding(enc, "utf-8"))

StartEngineRange(p) ==
    /\ call[p].pc = "idle"
    /\ call[p].ncalls < env.calls
    /\ \E s \in 0..2, e \in 1..3, enc \in EngineEncodings :
          CallReadLineRange(p, LineRange(s, e), FileEncoding(enc, "utf-8"))

StartEngineContext(p) ==
    /\ call[p].pc = "idle"
    /\ call[p].ncalls < env.calls
    /\ \E n \in 0..2, enc \in EngineEncodings :
          CallReadContext(p, n, 1, FileEncoding(enc, "utf-8"))

StartEngineLines(p) ==
    /\ call[p].pc = "idle"
    /\ call[p].ncalls < env.calls
    /\ \E c \in 1..2, enc \in EngineEncodings :
          CallStreamLines(p, c, FileEncoding(enc, "utf-8"))

StartEngineBytes(p) ==
    /\ call[p].pc = "idle"
    /\ call[p].ncalls < env.calls
    /\ \E b \in 1..2 : CallStreamBytes(p, b)

StartReadFile(p) ==
    /\ call[p].pc = "idle"
    /\ call[p].ncalls < env.calls
    /\ \E enc \in {"utf-8", "latin-1", "ascii", "utf-16", "klingon"},
          s \in {<<>>, <<0>>, <<1>>, <<2>>}, e \in {<<>>, <<1>>, <<3>>} :
          CallReadFile(p, enc, s, e)

StartDetectEncoding(p) ==
    /\ call[p].pc = "idle"
    /\ call[p].ncalls < env.calls
    /\ \E default \in {"utf-8", "ascii", "utf-16", "klingon"} :
          CallDetectEncoding(p, default)

NextEngine ==
    \/ StartEngineEdits(1)
    \/ StartEngineReplace(1)
    \/ StartEngineRange(1)
    \/ StartEngineContext(1)
    \/ StartEngineLines(1)
    \/ StartEngineBytes(1)
    \/ StartReadFile(1)
    \/ StartDetectEncoding(1)
    \/ CheckPath(1)
    \/ CreateBackup(1)
    \/ Validate(1)
    \/ ReadAndApply(1)
    \/ ReadAndReplace(1)
    \/ WriteTemp(1)
    \/ Compare(1)
    \/ Cleanup(1)
    \/ Move(1)
    \/ CopyOver(1)
    \/ RdCheckPath(1)
    \/ RdValidate(1)
    \/ RdReadLines(1)
    \/ RdContext(1)
    \/ StCheckPath(1)
    \/ StGetSize(1)
    \/ StOpen(1)
    \/ StReadLines(1)
    \/ StReadBytes(1)
    \/ FrLookup(1)
    \/ FrReadLines(1)
    \/ FrProbe(1)

SpecEngine == InitEngine /\ [][NextEngine]_vars

(***************************************************************************)
(* Vocabulary of the properties of detect_encoding                         *)
(***************************************************************************)
CandidateOrder ==
    <<"utf-8", "latin-1", "utf-16", "ascii", "iso-8859-1", "windows-1252">>

\* detect_encoding has returned to caller p.
Detected(p) == call[p].op = "detect_encoding" /\ call[p].pc = "done"

\* The positions of the candidates that decode the whole file.
Decoding(d) ==
    {k \in 1..Len(CandidateOrder) : ProbeOutcome(d, CandidateOrder[k]) = "ok"}

WriteOps == {"edits", "replace"}

EncodingNames ==
    {"utf-8", "latin-1", "utf-16", "ascii", "iso-8859-1", "windows-1252", "klingon"}

EncodingErrors == {EncodingError(e) : e \in EncodingNames}

HasBad(t) == \E i \in 1..Len(t) : t[i] = BAD

\* The call meets the file with nothing else in its way: no injected
\* failure, a regular file, an encoding the host knows.
Undisturbed(p) ==
    /\ ~env.faults
    /\ IsFile(call[p].pre)
    /\ SupportedEncoding(call[p].encoding)

(***************************************************************************)
(* C22: the read and write paths attempt one encoding, the explicit one or *)
(* else the default, and never substitute or probe another.  A decode      *)
(* failure in read_line_range, stream_file_by_lines, apply_line_edits or   *)
(* replace_string comes back as the encoding error that names that         *)
(* encoding; nothing that Latin-1 alone could decode is ever returned or   *)
(* written under another encoding; and on the write paths the target       *)
(* keeps its content.                                                      *)
(***************************************************************************)
C22_WriteDecodeFailure(p) ==
    (call[p].op \in WriteOps /\ call[p].pc = "done")
    => /\ call[p].result.error \in EncodingErrors
            => /\ call[p].result = Failure(EncodingError(call[p].encoding))
               /\ ~Decodable(call[p].pre.data, call[p].encoding)
               /\ target = call[p].pre
               /\ tmp[p] = Absent
       /\ call[p].result.success => Decodable(call[p].pre.data, call[p].encoding)
       /\ (/\ Undisturbed(p)
           /\ ~Decodable(call[p].pre.data, call[p].encoding)
           /\ call[p].op = "edits"
                => ValidateEdits(SortedEdits(call[p].edits)) = "none")
          => /\ call[p].result = Failure(EncodingError(call[p].encoding))
             /\ target = call[p].pre

C22_ReadDecodeFailure(p) ==
    (call[p].op \in ReadOps /\ call[p].pc \in {"rd_context", "done"})
    => /\ call[p].result.error \in EncodingErrors
            => /\ call[p].result.error = EncodingError(call[p].encoding)
               /\ call[p].result.content = <<>>
               /\ ~Decodable(call[p].pre.data, call[p].encoding)
       /\ HasBad(call[p].result.content) => call[p].encoding = "latin-1"
       /\ (/\ Undisturbed(p)
           /\ call[p].encoding # "latin-1"
           /\ ValidateRange(call[p].line_range) = "none"
           /\ call[p].pre.data # <<>> /\ call[p].pre.data[1] = BAD)
          => call[p].result.error = EncodingError(call[p].encoding)

C22_StreamDecodeFailure(p) ==
    (call[p].op = "stream_file_by_lines" /\ call[p].pc = "done")
    => /\ \A k \in 1..Len(call[p].yielded) :
            /\ (IsErrorChunk(call[p].yielded[k])
                /\ call[p].yielded[k].metadata.error \in EncodingErrors)
               => /\ call[p].yielded[k].metadata.error
                        = EncodingError(call[p].encoding)
                  /\ ~Decodable(call[p].pre.data, call[p].encoding)
            /\ HasBad(call[p].yielded[k].payload) => call[p].encoding = "latin-1"
       /\ (/\ Undisturbed(p)
           /\ call[p].encoding # "latin-1"
           /\ call[p].chunk_size > 0
           /\ call[p].pre.data # <<>> /\ call[p].pre.data[1] = BAD)
          => call[p].yielded = <<ErrorChunk(EncodingError(call[p].encoding))>>

C22_OneEncodingNamed ==
    \A p \in Procs :
        /\ C22_WriteDecodeFailure(p)
        /\ C22_ReadDecodeFailure(p)
        /\ C22_StreamDecodeFailure(p)

\* replace_string with backups on a file that is not UTF-8: the error
\* names utf-8, the target is as it was, and its copy is at <path>.bak.
C22_Witness ==
    /\ Returned(1, "replace")
    /\ call[1].create_backup
    /\ call[1].encoding = "utf-8"
    /\ call[1].pre = File(<<"1", LF, BAD, LF>>)
    /\ call[1].result
         = Failure("Encoding error: utf-8 is not compatible with this file")
    /\ target = call[1].pre
    /\ bak = call[1].pre

(***************************************************************************)
(* Vocabulary of the properties of the failures                            *)
(***************************************************************************)
OSErrors == {"FileNotFoundError", "IsADirectoryError", "OSError"}

\* What read_file raises for, in the order it meets them; "none" when the
\* call has nothing to raise for.  all_lines is the file as read_file
\* splits it.
ReadFileFault(p) ==
    LET d == call[p].pre.data
        n == Len(SplitLines(Decoded(d, call[p].encoding), <<>>, TRUE))
    IN  IF ~SupportedEncoding(call[p].encoding) THEN "LookupError"
        ELSE IF ~IsFile(call[p].pre) THEN OpenError(call[p].pre)
        ELSE IF ProbeOutcome(d, call[p].encoding) # "ok"
        THEN ProbeOutcome(d, call[p].encoding)
        ELSE IF call[p].start_line # <<>> /\ call[p].start_line[1] < 1
        THEN "ValueError"
        ELSE IF call[p].end_line # <<>> /\ call[p].end_line[1] > n
        THEN "ValueError"
        ELSE "none"

\* A result of the writer is a success without an error, or a failure
\* with a message.
StructuredWrite(r) ==
    IF r.success THEN r.error = "none" ELSE r.error \notin {"none", "pending"}

(***************************************************************************)
(* C21, as first stated: no operation of the engine lets an exception      *)
(* escape.                                                                 *)
(***************************************************************************)
C21_NoExceptionEscapes ==
    \A p \in Procs : call[p].pc # "raised"

(***************************************************************************)
(* C21, amended: the operations of the writer, the range reader and the    *)
(* streamer let no exception escape; a missing file, a path that is not a  *)
(* file, an invalid range, an unsupported encoding, a decode failure, a    *)
(* backup failure or an I/O failure comes back as a result or a chunk with *)
(* an error message, with success = false from the writer.  The functions  *)
(* of file_reader.py raise instead: read_file raises LookupError,          *)
(* an OSError, the decode error of the codec or ValueError, and returns    *)
(* only when there is nothing to raise for; detect_encoding passes over    *)
(* the decode failures of its candidates and raises the OSError of a path  *)
(* that cannot be opened.                                                  *)
(***************************************************************************)
C21_WritesReturnFailures(p) ==
    (call[p].op \in WriteOps /\ call[p].pc = "done")
    => /\ StructuredWrite(call[p].result)
       /\ ~Exists(call[p].pre) => call[p].result = Failure("FileNotFound")
       /\ (Exists(call[p].pre) /\ ~IsFile(call[p].pre))
            => call[p].result = Failure("NotAFile")
       /\ (~SupportedEncoding(call[p].encoding) \/ ~PreReadable(p))
            => ~call[p].result.success

C21_ReadsReturnFailures(p) ==
    (call[p].op \in ReadOps /\ call[p].pc \in {"rd_context", "done"})
    => /\ call[p].result.error # "pending"
       /\ ~Exists(call[p].pre) => call[p].result.error = "File not found"
       /\ (Exists(call[p].pre) /\ ~IsFile(call[p].pre))
            => call[p].result.error = "Not a file"
       /\ ValidateRange(call[p].line_range) # "none" => call[p].result.error # "none"
       /\ (IsFile(call[p].pre) /\ ValidateRange(call[p].line_range) = "none"
           /\ ~SupportedEncoding(call[p].encoding))
            => call[p].result.error = "Error reading file"
       /\ call[p].result.error # "none" => call[p].result.content = <<>>

C21_StreamsYieldFailures(p) ==
    (call[p].op \in StreamOps /\ call[p].pc = "done")
    => /\ ~IsFile(call[p].pre)
            => call[p].yielded = <<ErrorChunk("File not found or not a regular file")>>
       /\ (IsFile(call[p].pre) /\ call[p].op = "stream_file_by_lines"
           /\ ~SupportedEncoding(call[p].encoding))
            => call[p].yielded = <<ErrorChunk("Error streaming file")>>
       /\ env.faults \/ call[p].yielded = <<>> \/ IsErrorChunk(Last(call[p].yielded))
             \/ Payloads(call[p].yielded) = call[p].pre.data
             \/ Payloads(call[p].yielded) = ReadText(call[p].pre.data)

C21_FileReaderRaises(p) ==
    /\ (call[p].op = "read_file" /\ call[p].pc \in {"done", "raised"})
       => /\ call[p].pc = "done" => ReadFileFault(p) = "none"
          /\ call[p].pc = "raised"
               => /\ call[p].exception # "none"
                  /\ ReadFileFault(p) # "none" \/ env.faults
                  /\ ~env.faults => call[p].exception = ReadFileFault(p)
    /\ (call[p].op = "detect_encoding" /\ call[p].pc \in {"done", "raised"})
       => /\ call[p].pc = "done" => IsFile(call[p].pre)
          /\ call[p].pc = "raised"
               => /\ call[p].exception \in OSErrors
                  /\ ~IsFile(call[p].pre) \/ env.faults
                  /\ ~IsFile(call[p].pre) => call[p].exception = OpenError(call[p].pre)

C21_OnlyFileReaderRaises ==
    \A p \in Procs :
        /\ call[p].pc = "raised" => call[p].op \in FileReaderOps
        /\ C21_WritesReturnFailures(p)
        /\ C21_ReadsReturnFailures(p)
        /\ C21_StreamsYieldFailures(p)
        /\ C21_FileReaderRaises(p)

\* detect_encoding on a path where there is no file, with no failure
\* injected: FileNotFoundError leaves the function.
C21_Witness ==
    /\ call[1].op = "detect_encoding"
    /\ call[1].pc = "raised"
    /\ call[1].exception = "FileNotFoundError"
    /\ call[1].pre = Absent
    /\ ~env.faults

====
